---------------------------- MODULE Spec2Model ----------------------------
(***************************************************************************)
(* A model of the learning-to-rank trainer of agentic-search-o11y-autotune. *)
(*                                                                         *)
(* The repository holds two trainers with the same class name:             *)
(*   "properties" : src/src/python/properties-learn-to-rank.py             *)
(*   "legacy"     : src/unified-datastream-ltr-trainer.py                  *)
(* The variable  variant  says which of the two a behaviour runs.          *)
(*                                                                         *)
(* Numbers.  Counts and grades are integers.  Fractional feature values    *)
(* are kept in ten-thousandths (1.0 = 10000), scores of the evaluator in   *)
(* hundredths (0.6 = 60), and log2 in hundredths, rounded down.            *)
(*                                                                         *)
(* Specifications.                                                         *)
(*   SpecLabel : the relevance labeler applied to an arbitrary lookup      *)
(*   SpecItem  : interaction events -> interaction lookup -> one iteration *)
(*               of the builder's position loop                            *)
(*   SpecFeat  : the feature extractor: base features, enrichment from the *)
(*               document store, labeling, zero-filling before training    *)
(*   SpecGroup : the train/test split and the grouping by query id         *)
(*   SpecBuild : the training-set builder over sessions and positions      *)
(*   SpecPipe  : the entry points run_pipeline, train_model and the        *)
(*               train-and-deploy command, as the sequence of their calls  *)
(*   SpecTrain : train_xgboost_model from the scaler on: standardize,      *)
(*               group, copy, amplify, noise, fit, importance, evaluate    *)
(*   SpecRegroup : the grouping of arbitrary splits, up to the copies      *)
(*   SpecNorm  : the normalizer of result-logging events, hit by hit       *)
(*   SpecKey   : the lookup key on identifiers that hold the separator     *)
(*   SpecDeploy : persistence and deployment: the saves, deploy_model,     *)
(*               deploy_model_to_elasticsearch and the smoke test          *)
(***************************************************************************)
EXTENDS Integers, Sequences, FiniteSets, TLC

VARIABLES
    variant,             \* "properties" | "legacy": which trainer runs
    mode,                \* which part of the program this behaviour exercises
    \* the labeler and the lookup it reads
    interaction_events,  \* the list returned by extract_interaction_events
    interaction_lookup,  \* key -> list of {position, type, conversational}
    training_examples,   \* the list the builder appends to
    position,            \* the position the position loop stands at
    \* the feature extractor
    es_index,            \* what the document store and the explain and search
                         \* calls answer for the document being enriched
    query,               \* the query text handed to the extractor
    enrich_result,       \* what enrich_with_property_data returned
    features,            \* the feature mapping of the example being built
    feat_pc,             \* how far the extractor has come
    \* the split and the grouping of train_xgboost_model
    split_train,         \* the rows of the train split, in the split's order
    split_test,          \* the rows of the test split, in the split's order
    train_data,          \* the grouped matrix of the train split
    test_data,           \* the grouped matrix of the test split
    group_pc,            \* how far train_xgboost_model has come
    \* the training-set builder
    results_lookup,      \* session_id -> position -> document id
    query_metadata,      \* the sessions' metadata in the order the builder's
                         \* loop visits them (legacy: the search events)
    missing_docs,        \* the document ids the document store does not hold
    build_next,          \* the index of the entry the builder's loop is at
    \* the entry points
    entry,               \* "run_pipeline" | "train_model" | "train_and_deploy_model"
    pc,                  \* the call the run is about to make
    store,               \* the telemetry store: the number of qualifying
                         \* interaction events, and whether counting raises
    min_interactions,    \* int(os.getenv('LTR_MIN_INTERACTIONS', 100))
    extracted,           \* what the extraction calls of the run returned
    n_examples,          \* len(training_examples) of the run
    avg_ndcg,            \* what the evaluator returned, in hundredths
    train_result,        \* what train_xgboost_model returned
    calls,               \* the calls the run has made, in order
    result,              \* what the run returned
    \* the scaler, the fit and the evaluator of train_xgboost_model
    train_pc,            \* the statement train_xgboost_model is about to run
    scaler,              \* self.scaler: what it was fit on and its parameters
    X_scaled,            \* row -> its standardized feature vector, in hundredths
    X_train_modified,    \* the array _fit_xgboost_model amplifies and fits on
    X_test_modified,     \* the same for the evaluation set of the fit
    model,               \* self.model
    steps,               \* the steps of the run so far, in order
    ndcg_scores,         \* the per-group scores of the last evaluation
    eval_returns,        \* what each evaluation of the run returned
    \* the normalizer of result-logging events
    response,            \* the hits of the search response, in order
    hit_next,            \* the index of the hit the loop is at
    validated,           \* the ids whose existence check returned True
    failing_docs,        \* the ids whose existence check raises
    metadata_writes,     \* session_id -> the metadata stored for it, in order
    \* persistence and deployment
    deploy_entry,        \* the entry point whose tail this behaviour runs
    deploy_pc,           \* the call the run is about to make
    self_model,          \* self.model: which model the trainer holds
    self_scaler,         \* self.scaler: which scaler the trainer holds
    es_model,            \* the model the search engine holds under model_id
    models_dir,          \* the files of self.models_dir: file -> content
    es_before,           \* es_model when deploy_model_to_elasticsearch began
    dir_before,          \* models_dir when the entry point began
    remote_ops,          \* the changes the run made in the search engine
    train_returned,      \* what train_model returned
    deploy_returned,     \* what deploy_model_to_elasticsearch returned
    inference,           \* what the inference call of the smoke test did
    test_returned,       \* what test_native_ltr returned
    deploy_result        \* what the entry point returned

labelVars == <<interaction_events, interaction_lookup, training_examples, position>>
featVars == <<es_index, query, enrich_result, features, feat_pc>>
groupVars == <<split_train, split_test, train_data, test_data, group_pc>>

buildVars == <<results_lookup, query_metadata, missing_docs, build_next>>

pipeVars == <<entry, pc, store, min_interactions, extracted, n_examples,
              avg_ndcg, train_result, calls, result>>

trainVars == <<train_pc, scaler, X_scaled, X_train_modified, X_test_modified,
               model, steps, ndcg_scores, eval_returns>>

normVars == <<response, hit_next, validated, failing_docs, metadata_writes>>

deployVars == <<deploy_entry, deploy_pc, self_model, self_scaler, es_model,
                models_dir, es_before, dir_before, remote_ops, train_returned,
                deploy_returned, inference, test_returned, deploy_result>>

vars == <<variant, mode, labelVars, featVars, groupVars, buildVars, pipeVars,
          trainVars, normVars, deployVars>>

\* the variables a specification leaves alone: every one but its own
notLabelVars == <<featVars, groupVars, buildVars, pipeVars, trainVars, normVars,
                  deployVars>>
notFeatVars == <<groupVars, buildVars, pipeVars, trainVars, normVars, deployVars>>
notGroupVars == <<interaction_events, interaction_lookup, position, featVars,
                  buildVars, pipeVars, trainVars, normVars, deployVars>>
notBuildVars == <<interaction_events, interaction_lookup, position, featVars,
                  groupVars, pipeVars, trainVars, normVars, deployVars>>
notPipeVars == <<labelVars, featVars, groupVars, buildVars, trainVars, normVars,
                 deployVars>>
notTrainVars == <<interaction_events, interaction_lookup, position, featVars,
                  buildVars, pipeVars, normVars, deployVars>>
notNormVars == <<labelVars, featVars, groupVars, build_next, pipeVars, trainVars,
                 deployVars>>
notDeployVars == <<labelVars, featVars, groupVars, buildVars, pipeVars, trainVars,
                   normVars>>

-----------------------------------------------------------------------------
(* Bounds of the model *)

MaxInteractions == 2

\* the longest list of examples the split and the grouping are run on
MaxRows == 6

-----------------------------------------------------------------------------
(* Small input domains *)

Variants == {"properties", "legacy"}

NoneVal == "None"

Sessions == {"A", "B"}
Docs == {"d1", "d2"}

\* session_results.get(position) of the sessions above: both show the same
\* document; the other document is one that interaction events may name
ShownDoc == "d1"

\* hash(session_id) % 10000 of the sessions above in one process
SessionQid(session_id) ==
    CASE session_id = "A" -> 1 [] session_id = "B" -> 2 [] OTHER -> 3

\* interaction.type values
InteractionTypes == {"view", "click", "property_engagement"}

\* 'click' in str(type)
ContainsClick(t) == t \in {"click"}

\* 'property_engagement' in str(type)
ContainsPropertyEngagement(t) == t \in {"property_engagement"}

\* range(1, min(11, results_count + 1)) never leaves 1..MaxPosition
MaxPosition == 10
Positions == 1..MaxPosition

Min(a, b) == IF a <= b THEN a ELSE b
Max(a, b) == IF a >= b THEN a ELSE b

\* f with f[k] set to v, k added to the domain when absent (dict assignment)
Put(f, k, v) == [x \in (DOMAIN f) \cup {k} |-> IF x = k THEN v ELSE f[x]]

\* the elements of l that keep maps to TRUE, order kept (a list comprehension)
RECURSIVE SelectRecs(_, _)
SelectRecs(l, keep) ==
    IF l = << >> THEN << >>
    ELSE IF keep[Head(l)] THEN <<Head(l)>> \o SelectRecs(Tail(l), keep)
         ELSE SelectRecs(Tail(l), keep)

\* floor(100 * log2(n)) for the arguments the labeler uses (n = position + 1
\* or position + 5 with position in 1..10)
Log2x100(n) ==
    CASE n = 1 -> 0     [] n = 2 -> 100   [] n = 3 -> 158   [] n = 4 -> 200
      [] n = 5 -> 232   [] n = 6 -> 258   [] n = 7 -> 280   [] n = 8 -> 300
      [] n = 9 -> 316   [] n = 10 -> 332  [] n = 11 -> 345  [] n = 12 -> 358
      [] n = 13 -> 370  [] n = 14 -> 380  [] n = 15 -> 390

-----------------------------------------------------------------------------
(* The interaction lookup *)

\* a faulty key that drops the document id: every item of a session would
\* share the session's interactions
LookupKeySessionOnly(session_id, doc_id) == session_id

\* key = f"{session_id}_{doc_id}"
LookupKey(session_id, doc_id) == session_id \o "_" \o doc_id

\* the 'conversational' field of a lookup record
ConversationalFlag(v, event) ==
    IF v = "properties" THEN FALSE ELSE event.conversational_detection

\* one iteration of the loop of _build_interaction_lookup (properties) or of the
\* first loop of prepare_training_features (legacy)
AddInteraction(v, lookup, event) ==
    IF event.session_id # NoneVal /\ event.document_id # NoneVal
    THEN LET key == LookupKey(event.session_id, event.document_id)
             rec == [position |-> event.position,
                     type |-> event.type,
                     conversational |-> ConversationalFlag(v, event)]
             old == IF key \in DOMAIN lookup THEN lookup[key] ELSE << >>
         IN  Put(lookup, key, Append(old, rec))
    ELSE lookup

-----------------------------------------------------------------------------
(* The relevance labeler *)

\* a record counts as a click
IsClickInteraction(v, i) ==
    IF v = "properties"
    THEN ContainsClick(i.type) \/ ContainsPropertyEngagement(i.type)
    ELSE ContainsClick(i.type)

\* a faulty boost that grows with the position itself, without the logarithm
\* and its cap
PositionBoostLinear(pos) == IF pos > 3 THEN pos * 100 ELSE 0

\* position_boost, in hundredths
PositionBoost(pos) ==
    IF pos >= 8 THEN Min(1000, Log2x100(pos + 5))
    ELSE IF pos > 3 THEN Min(500, Log2x100(pos + 1))
    ELSE 0

\* position_engagement, in ten-thousandths
PositionEngagement(pos, has_clicks) ==
    IF ~has_clicks THEN 0
    ELSE IF pos >= 8 THEN Min(10000, 7000 + (pos * 10000) \div 15)
    ELSE Min(10000, 5000 + (pos * 10000) \div 20)

\* the three lists np.random.choice draws from when the key has no interactions
PriorGrades(pos) ==
    IF pos = 1 THEN <<2, 3, 4>>
    ELSE IF pos <= 3 THEN <<1, 2, 3>>
    ELSE <<0, 1, 2>>

Draws == 1..3

\* a faulty grade whose conversational and click bases are exchanged
InteractionGradeSwapped(v, pos, has_conv, has_clicks) ==
    IF v = "properties"
    THEN IF has_conv THEN (400 + PositionBoost(pos)) \div 100
         ELSE IF has_clicks THEN (500 + PositionBoost(pos)) \div 100
         ELSE 2
    ELSE IF has_conv THEN 3
         ELSE IF has_clicks THEN 4
         ELSE 2

\* a faulty grade that adds the position boost to the view grade as well
InteractionGradeViewBoosted(v, pos, has_conv, has_clicks) ==
    IF v = "properties"
    THEN IF has_conv THEN (500 + PositionBoost(pos)) \div 100
         ELSE IF has_clicks THEN (400 + PositionBoost(pos)) \div 100
         ELSE (200 + PositionBoost(pos)) \div 100
    ELSE IF has_conv THEN 4
         ELSE IF has_clicks THEN 3
         ELSE 2

\* the grade of the interaction-present branch
InteractionGrade(v, pos, has_conv, has_clicks) ==
    IF v = "properties"
    THEN IF has_conv THEN (500 + PositionBoost(pos)) \div 100
         ELSE IF has_clicks THEN (400 + PositionBoost(pos)) \div 100
         ELSE 2
    ELSE IF has_conv THEN 4
         ELSE IF has_clicks THEN 3
         ELSE 2

\* user_engagement_score of the interaction-present branch, in ten-thousandths
EngagementScore(v, pos, has_conv, has_clicks) ==
    IF v = "properties"
    THEN IF has_conv THEN 9500 + PositionBoost(pos) * 2
         ELSE IF has_clicks THEN 8000 + PositionBoost(pos) * 5
         ELSE 5000
    ELSE IF has_conv THEN 9000
         ELSE IF has_clicks THEN 7000
         ELSE 5000

\* _calculate_relevance_and_update_features (properties); the labeling part of
\* prepare_training_features (legacy).  draw is np.random.choice's pick.
CalculateRelevance(v, key, pos, feats, lookup, draw) ==
    IF key \in DOMAIN lookup
    THEN LET interactions == lookup[key]
             clicks == SelectRecs(interactions,
                          [i \in {interactions[n] : n \in DOMAIN interactions}
                             |-> IsClickInteraction(v, i)])
             convs == SelectRecs(interactions,
                          [i \in {interactions[n] : n \in DOMAIN interactions}
                             |-> i.conversational])
             has_clicks == clicks # << >>
             has_conv == convs # << >>
             f1 == Put(feats, "click_count", Len(clicks))
             f2 == Put(f1, "view_count", Len(interactions))
             f3 == Put(f2, "interaction_rate",
                       (Len(clicks) * 10000) \div Max(1, Len(interactions)))
             f4 == Put(f3, "conversational_detection",
                       IF has_conv THEN 10000 ELSE 0)
             f5 == IF v = "properties"
                   THEN Put(f4, "position_engagement_signal",
                            PositionEngagement(pos, has_clicks))
                   ELSE f4
             f6 == Put(f5, "user_engagement_score",
                       EngagementScore(v, pos, has_conv, has_clicks))
         IN  [relevance |-> InteractionGrade(v, pos, has_conv, has_clicks),
              features |-> f6]
    ELSE [relevance |-> PriorGrades(pos)[draw], features |-> feats]

\* the interaction-derived entries of the base feature mapping
InteractionDefaults(v) ==
    LET common == [k \in {"click_count", "view_count", "interaction_rate",
                          "conversational_detection", "user_engagement_score"}
                     |-> 0]
    IN  IF v = "properties" THEN Put(common, "position_engagement_signal", 0)
        ELSE common

\* one iteration of the position loop, from the key on: label the item and
\* append the example.  session_id and doc_id are kept beside the example to
\* state properties about it; the program keeps only features, relevance, qid.
LabelledExample(v, session_id, doc_id, pos, lookup, draw) ==
    LET r == CalculateRelevance(v, LookupKey(session_id, doc_id), pos,
                                InteractionDefaults(v), lookup, draw)
    IN  [features |-> r.features,
         relevance |-> r.relevance,
         qid |-> SessionQid(session_id),
         session_id |-> session_id,
         doc_id |-> doc_id,
         position |-> pos]

-----------------------------------------------------------------------------
(* The feature extractor *)

\* self.feature_names
FeatureNames(v) ==
    {"position", "position_log", "position_reciprocal", "position_bias_factor",
     "elasticsearch_score", "search_time_ms", "template_complexity",
     "query_length", "query_word_count", "query_complexity_score",
     "has_geo_filter", "has_price_filter", "has_bedroom_filter",
     "click_count", "view_count", "interaction_rate",
     "conversational_detection", "user_engagement_score",
     "session_query_count", "session_avg_position", "time_in_session_ms",
     "title_query_overlap", "description_query_overlap", "exact_match_score",
     "bm25_title_score", "bm25_description_score", "bm25_features_score",
     "bm25_headings_score", "bm25_combined_score",
     "semantic_description_similarity", "semantic_features_similarity",
     "semantic_query_embedding_match",
     "property_price_normalized", "bedrooms_match_score",
     "bathrooms_match_score", "square_footage_normalized",
     "annual_tax_normalized", "maintenance_fee_normalized",
     "geo_distance_km", "geo_relevance_score", "same_neighborhood",
     "title_query_exact_match", "description_query_coverage",
     "features_query_overlap", "property_status_relevance"}
    \cup (IF v = "properties"
          THEN {"position_engagement_signal", "price_value_competitiveness",
                "absolute_price_tier"}
          ELSE {})

\* dict.update: g's entries written over f's
Update(f, g) ==
    [x \in (DOMAIN f) \cup (DOMAIN g) |-> IF x \in DOMAIN g THEN g[x] ELSE f[x]]

\* the query text of the examples: "house near downtown" (19 characters, three
\* words, no bedroom or bathroom count, one location word); NoneVal is a query
\* field that holds null
TextQuery == "house near downtown"
Queries == {TextQuery, NoneVal}
QueryLength(q) == IF q = TextQuery THEN 19 ELSE 0
QueryWordCount(q) == IF q = TextQuery THEN 3 ELSE 0
\* extract_bedrooms_from_query, extract_bathrooms_from_query
QueryBedrooms(q) == 0
QueryBathrooms(q) == 0
\* any(word in query.lower() for word in ['near', 'downtown', ...])
QueryHasLocation(q) == q = TextQuery

\* floor(10000 * ln(n)) for n = position + 1
Lnx10000(n) ==
    CASE n = 2 -> 6931   [] n = 3 -> 10986  [] n = 4 -> 13862  [] n = 5 -> 16094
      [] n = 6 -> 17917  [] n = 7 -> 19459  [] n = 8 -> 20794  [] n = 9 -> 21972
      [] n = 10 -> 23025 [] n = 11 -> 23978

\* what the document store and the search engine answer for one document:
\*   fetch         "ok": the document is there; "missing": it is not;
\*                 "error": the call raises
\*   home_price    the document's home-price
\*   price_null    the home-price field holds null
\*   title_null    the title field holds null
\*   explain_fails the explain call raises
\*   search_fails  the semantic search calls raise
EsAnswers ==
    {ix \in [fetch : {"ok", "missing", "error"},
             home_price : {250000, 450000},
             price_null : BOOLEAN,
             title_null : BOOLEAN,
             explain_fails : BOOLEAN,
             search_fails : BOOLEAN] :
        ix.price_null => ix.home_price = 250000}

\* doc_response['_source']: the fields of the stored document, and the names of
\* those that hold null
PropertyData(ix) ==
    [fields |-> [f \in {"home-price", "square-footage", "number-of-bedrooms",
                        "number-of-bathrooms", "annual-tax", "maintenance-fee"}
                   |-> CASE f = "home-price" -> ix.home_price
                         [] f = "square-footage" -> 1500
                         [] f = "number-of-bedrooms" -> 3
                         [] f = "number-of-bathrooms" -> 2
                         [] f = "annual-tax" -> 5000
                         [] f = "maintenance-fee" -> 250],
     text |-> [f \in {"state", "title", "property-description",
                      "property-features", "property-status", "location"}
                 |-> CASE f = "state" -> "FL"
                       [] f = "title" -> "house near downtown with pool"
                       [] f = "property-description" -> "a house"
                       [] f = "property-features" -> "pool"
                       [] f = "property-status" -> "active"
                       [] f = "location" -> "27.9,-82.4"],
     nulls |-> (IF ix.price_null THEN {"home-price"} ELSE {})
               \cup (IF ix.title_null THEN {"title"} ELSE {})]

\* property_data.items() as a mapping, a null field mapped to NoneVal
RawFields(pd) ==
    [f \in (DOMAIN pd.fields) \cup (DOMAIN pd.text) |->
        IF f \in pd.nulls THEN NoneVal
        ELSE IF f \in DOMAIN pd.fields THEN pd.fields[f] ELSE pd.text[f]]

Abs(n) == IF n < 0 THEN -n ELSE n

\* get_bm25_scores: parse_explain_scores of the explain answer, or the zeros of
\* the except branch
GetBm25Scores(ix, q) ==
    IF ix.explain_fails
    THEN [k \in {"bm25_title_score", "bm25_description_score",
                 "bm25_features_score", "bm25_headings_score",
                 "bm25_combined_score"} |-> 0]
    ELSE [k \in {"bm25_title_score", "bm25_description_score",
                 "bm25_features_score", "bm25_headings_score",
                 "bm25_combined_score"}
            |-> CASE k = "bm25_combined_score" -> 12000
                  [] k = "bm25_title_score" -> 8000
                  [] k = "bm25_description_score" -> 4000
                  [] OTHER -> 0]

\* calculate_semantic_similarity
CalculateSemanticSimilarity(ix, q) ==
    IF ix.search_fails
    THEN [k \in {"semantic_description_similarity",
                 "semantic_features_similarity",
                 "semantic_query_embedding_match"} |-> 0]
    ELSE [k \in {"semantic_description_similarity",
                 "semantic_features_similarity",
                 "semantic_query_embedding_match"}
            |-> CASE k = "semantic_description_similarity" -> 9000
                  [] k = "semantic_features_similarity" -> 7000
                  [] OTHER -> (9000 + 7000) \div 2]

\* the match score of a bedroom or bathroom count against the query's
MatchScore(query_count, prop_count) ==
    IF query_count > 0
    THEN IF prop_count = query_count THEN 10000
         ELSE Max(0, 10000 - Abs(prop_count - query_count) * 2000)
    ELSE 5000

\* price_value_score of the inner try of extract_property_attributes; the price
\* per square foot is kept in hundredths
PriceValueScore(pd) ==
    LET price_per_sqft == (pd.fields["home-price"] * 100)
                              \div Max(1, pd.fields["square-footage"])
    IN  IF pd.text["state"] = "FL" /\ pd.fields["number-of-bedrooms"] = 3
        THEN IF price_per_sqft <= 14000 THEN 10000
             ELSE IF price_per_sqft <= 17000 THEN 8000
             ELSE IF price_per_sqft <= 20000 THEN 6000
             ELSE IF price_per_sqft <= 23000 THEN 3000
             ELSE 1000
        ELSE 5000

\* absolute_price_tier of the inner try of extract_property_attributes
AbsolutePriceTier(pd) ==
    LET price == pd.fields["home-price"]
    IN  IF price <= 275000 THEN 10000
        ELSE IF price <= 350000 THEN 8000
        ELSE IF price <= 400000 THEN 5000
        ELSE IF price <= 500000 THEN 3000
        ELSE 1000

\* extract_property_attributes.  A null home-price makes the first division
\* raise, a null query makes the bedroom pattern match raise: both end in the
\* outer except.
ExtractPropertyAttributes(v, pd, q) ==
    IF "home-price" \in pd.nulls \/ q = NoneVal
    THEN [k \in {"property_price_normalized", "bedrooms_match_score",
                 "bathrooms_match_score", "square_footage_normalized",
                 "annual_tax_normalized", "maintenance_fee_normalized"}
            |-> 5000]
    ELSE LET common ==
               [k \in {"property_price_normalized", "bedrooms_match_score",
                       "bathrooms_match_score", "square_footage_normalized",
                       "annual_tax_normalized", "maintenance_fee_normalized"}
                  |-> CASE k = "property_price_normalized" ->
                             Min(pd.fields["home-price"] \div (500000 \div 10000), 20000)
                        [] k = "bedrooms_match_score" ->
                             MatchScore(QueryBedrooms(q),
                                        pd.fields["number-of-bedrooms"])
                        [] k = "bathrooms_match_score" ->
                             MatchScore(QueryBathrooms(q),
                                        pd.fields["number-of-bathrooms"])
                        [] k = "square_footage_normalized" ->
                             Min((pd.fields["square-footage"] * 10000) \div 1500, 30000)
                        [] k = "annual_tax_normalized" ->
                             Min((pd.fields["annual-tax"] * 10000) \div 10000, 20000)
                        [] k = "maintenance_fee_normalized" ->
                             Min((pd.fields["maintenance-fee"] * 10000) \div 500, 20000)]
         IN  IF v = "properties"
             THEN Put(Put(common, "price_value_competitiveness", PriceValueScore(pd)),
                      "absolute_price_tier", AbsolutePriceTier(pd))
             ELSE common

\* calculate_geo_relevance; query.lower() raises on a null query
CalculateGeoRelevance(pd, q) ==
    IF q = NoneVal
    THEN [k \in {"geo_distance_km", "geo_relevance_score", "same_neighborhood"}
            |-> CASE k = "geo_distance_km" -> 100000
                  [] k = "geo_relevance_score" -> 5000
                  [] OTHER -> 0]
    ELSE LET has_location == "location" \notin pd.nulls
             both == has_location /\ QueryHasLocation(q)
         IN  [k \in {"geo_distance_km", "geo_relevance_score", "same_neighborhood"}
                |-> CASE k = "geo_distance_km" ->
                           IF has_location THEN 50000 ELSE 100000
                      [] k = "geo_relevance_score" -> IF both THEN 10000 ELSE 5000
                      [] OTHER -> IF both THEN 10000 ELSE 0]

\* calculate_query_document_matching; .lower() raises on a null query and on a
\* null title.  The text query is contained in the title, shares one of its
\* three words with the description and none with the features; the status
\* is active.
CalculateQueryDocumentMatching(pd, q) ==
    IF q = NoneVal \/ "title" \in pd.nulls
    THEN [k \in {"title_query_exact_match", "description_query_coverage",
                 "features_query_overlap", "property_status_relevance"}
            |-> IF k = "property_status_relevance" THEN 7000 ELSE 0]
    ELSE [k \in {"title_query_exact_match", "description_query_coverage",
                 "features_query_overlap", "property_status_relevance"}
            |-> CASE k = "title_query_exact_match" -> 10000
                  [] k = "description_query_coverage" ->
                       (1 * 10000) \div Max(QueryWordCount(q), 1)
                  [] k = "features_query_overlap" ->
                       (0 * 10000) \div Max(QueryWordCount(q), 1)
                  [] OTHER -> 10000]

\* get_default_property_features
GetDefaultPropertyFeatures(v) ==
    LET zero == {"bm25_title_score", "bm25_description_score",
                 "bm25_features_score", "bm25_headings_score",
                 "bm25_combined_score", "semantic_description_similarity",
                 "semantic_features_similarity",
                 "semantic_query_embedding_match", "same_neighborhood",
                 "title_query_exact_match", "description_query_coverage",
                 "features_query_overlap"}
        half == {"property_price_normalized", "bedrooms_match_score",
                 "bathrooms_match_score", "square_footage_normalized",
                 "annual_tax_normalized", "maintenance_fee_normalized",
                 "geo_relevance_score"}
                \cup (IF v = "properties"
                      THEN {"price_value_competitiveness", "absolute_price_tier"}
                      ELSE {})
    IN  [k \in zero \cup half \cup {"geo_distance_km", "property_status_relevance"}
           |-> CASE k \in zero -> 0
                 [] k \in half -> 5000
                 [] k = "geo_distance_km" -> 100000
                 [] OTHER -> 7000]

\* enrich_with_property_data.  The properties trainer asks whether the document
\* exists and raises when it does not; the legacy trainer's get raises.  Every
\* exception ends in the defaults.
EnrichWithPropertyData(v, ix, q) ==
    IF ix.fetch # "ok"
    THEN GetDefaultPropertyFeatures(v)
    ELSE LET pd == PropertyData(ix)
         IN  Update(Update(Update(Update(GetBm25Scores(ix, q),
                                         CalculateSemanticSimilarity(ix, q)),
                                  ExtractPropertyAttributes(v, pd, q)),
                           CalculateGeoRelevance(pd, q)),
                    CalculateQueryDocumentMatching(pd, q))

\* the metadata of the session the example belongs to: search time, template
\* id, and no filter recorded
SearchTime == 100
SearchTemplate == "linear-v2"

TemplateComplexity(template_id) ==
    IF template_id = "rrf" THEN 8000
    ELSE IF template_id = "linear-v2" THEN 6000
    ELSE 4000

\* np.random.normal, in units of its standard deviation
NoiseDraws == {-1, 1}
Noises == [es : NoiseDraws, title : NoiseDraws, desc : NoiseDraws, exact : NoiseDraws]

\* _extract_base_features (properties); the features literal of
\* prepare_training_features (legacy).  The query is a string here.
BaseFeatures(v, pos, q, noise) ==
    LET base ==
          [k \in {"position", "position_reciprocal", "position_bias_factor",
                  "position_log", "elasticsearch_score", "search_time_ms",
                  "template_complexity", "query_length", "query_word_count",
                  "query_complexity_score", "has_geo_filter",
                  "has_price_filter", "has_bedroom_filter", "click_count",
                  "view_count", "interaction_rate", "conversational_detection",
                  "user_engagement_score", "session_query_count",
                  "session_avg_position", "time_in_session_ms",
                  "title_query_overlap", "description_query_overlap",
                  "exact_match_score"} |->
            CASE k = "position" -> pos
              [] k = "position_reciprocal" -> 10000 \div pos
              [] k = "position_bias_factor" -> 1000000 \div Log2x100(pos + 1)
              [] k = "position_log" -> Lnx10000(pos + 1)
              [] k = "elasticsearch_score" ->
                   Max(0, (10 - pos) * 10000 + noise.es * 5000)
              [] k = "search_time_ms" -> SearchTime
              [] k = "template_complexity" -> TemplateComplexity(SearchTemplate)
              [] k = "query_length" -> QueryLength(q)
              [] k = "query_word_count" -> QueryWordCount(q)
              [] k = "query_complexity_score" ->
                   IF QueryWordCount(q) > 3 THEN 8000 ELSE 5000
              [] k = "session_query_count" -> 1
              [] k = "session_avg_position" -> pos
              [] k = "time_in_session_ms" -> SearchTime
              [] k = "title_query_overlap" ->
                   Max(0, 10000 - (pos - 1) * 1000 + noise.title * 1000)
              [] k = "description_query_overlap" ->
                   Max(0, 10000 - (pos - 1) * 800 + noise.desc * 1000)
              [] k = "exact_match_score" ->
                   Max(0, 10000 - (pos - 1) * 1500 + noise.exact * 1000)
              [] OTHER -> 0]
    IN  IF v = "properties" THEN Put(base, "position_engagement_signal", 0)
        ELSE base

\* _enrich_features_with_property_data (properties): the fields of the fetched
\* document that the mapping does not hold yet are copied in; a get that
\* raises ends in the defaults.  The legacy builder updates the mapping with
\* what enrich_with_property_data returns.
EnrichFeaturesWithPropertyData(v, feats, ix, q) ==
    IF v = "properties"
    THEN IF ix.fetch = "ok"
         THEN Update(RawFields(PropertyData(ix)), feats)
         ELSE Update(feats, GetDefaultPropertyFeatures(v))
    ELSE Update(feats, EnrichWithPropertyData(v, ix, q))

\* the loop over self.feature_names of _prepare_training_data: a name the
\* mapping lacks is set to 0.0
FillMissingFeatures(v, feats) ==
    [k \in (DOMAIN feats) \cup FeatureNames(v) |->
        IF k \in DOMAIN feats THEN feats[k] ELSE 0]

-----------------------------------------------------------------------------
(* Actions of the labeler specifications *)

\* interaction events: well-formed ones, and ones that lack the session id or
\* the document id
InteractionEventSet ==
    [session_id : Sessions, document_id : Docs, position : {0},
     type : InteractionTypes, conversational_detection : BOOLEAN]
    \cup [session_id : {NoneVal}, document_id : {"d1"}, position : {0},
          type : {"click"}, conversational_detection : {FALSE}]
    \cup [session_id : {"A"}, document_id : {NoneVal}, position : {0},
          type : {"click"}, conversational_detection : {FALSE}]

LookupRecordSet ==
    [position : {0}, type : InteractionTypes, conversational : BOOLEAN]

\* the number of records a lookup holds
RECURSIVE LookupSize(_)
LookupSize(lookup) ==
    IF DOMAIN lookup = {} THEN 0
    ELSE LET k == CHOOSE x \in DOMAIN lookup : TRUE
         IN  Len(lookup[k]) + LookupSize([x \in (DOMAIN lookup) \ {k} |-> lookup[x]])

\* the extractor's variables in a behaviour that does not run it
IdleFeat ==
    /\ es_index = NoneVal
    /\ query = NoneVal
    /\ enrich_result = NoneVal
    /\ features = NoneVal
    /\ feat_pc = "idle"

\* the grouping's variables in a behaviour that does not run it
IdleGroup ==
    /\ split_train = << >>
    /\ split_test = << >>
    /\ train_data = NoneVal
    /\ test_data = NoneVal
    /\ group_pc = "idle"

\* the builder's variables in a behaviour that does not run it
IdleBuild ==
    /\ results_lookup = << >>
    /\ query_metadata = << >>
    /\ missing_docs = {}
    /\ build_next = 0

\* the entry points' variables in a behaviour that runs none
IdlePipe ==
    /\ entry = NoneVal
    /\ pc = "idle"
    /\ store = NoneVal
    /\ min_interactions = 0
    /\ extracted = NoneVal
    /\ n_examples = 0
    /\ avg_ndcg = 0
    /\ train_result = NoneVal
    /\ calls = << >>
    /\ result = NoneVal

IdleTrain ==
    /\ train_pc = "idle"
    /\ scaler = NoneVal
    /\ X_scaled = << >>
    /\ X_train_modified = << >>
    /\ X_test_modified = << >>
    /\ model = NoneVal
    /\ steps = << >>
    /\ ndcg_scores = << >>
    /\ eval_returns = << >>

IdleNorm ==
    /\ response = << >>
    /\ hit_next = 0
    /\ validated = {}
    /\ failing_docs = {}
    /\ metadata_writes = << >>

\* the persistence and deployment variables in a behaviour that runs neither
IdleDeploy ==
    /\ deploy_entry = NoneVal
    /\ deploy_pc = "idle"
    /\ self_model = NoneVal
    /\ self_scaler = NoneVal
    /\ es_model = NoneVal
    /\ models_dir = << >>
    /\ es_before = NoneVal
    /\ dir_before = << >>
    /\ remote_ops = << >>
    /\ train_returned = NoneVal
    /\ deploy_returned = NoneVal
    /\ inference = NoneVal
    /\ test_returned = NoneVal
    /\ deploy_result = NoneVal

InitLabelVars ==
    /\ variant \in Variants
    /\ IdleFeat
    /\ IdleGroup
    /\ IdleBuild
    /\ IdlePipe
    /\ IdleTrain
    /\ IdleNorm
    /\ IdleDeploy
    /\ interaction_events = << >>
    /\ interaction_lookup = << >>
    /\ training_examples = << >>
    /\ position \in Positions

\* SpecItem: the lookup builder consumes the next interaction event
BuildInteraction ==
    /\ mode = "item"
    /\ training_examples = << >>
    /\ Len(interaction_events) < MaxInteractions
    /\ \E event \in InteractionEventSet :
          /\ interaction_events' = Append(interaction_events, event)
          /\ interaction_lookup' = AddInteraction(variant, interaction_lookup, event)
    /\ UNCHANGED <<variant, mode, training_examples, position, notLabelVars>>

\* SpecLabel: the labeler is handed a lookup that holds one more record
GivenLookupRecord ==
    /\ mode = "label"
    /\ training_examples = << >>
    /\ LookupSize(interaction_lookup) < MaxInteractions
    /\ \E s \in Sessions, d \in Docs, rec \in LookupRecordSet :
          LET key == LookupKey(s, d)
              old == IF key \in DOMAIN interaction_lookup
                     THEN interaction_lookup[key] ELSE << >>
          IN  interaction_lookup' = Put(interaction_lookup, key, Append(old, rec))
    /\ UNCHANGED <<variant, mode, interaction_events, training_examples, position, notLabelVars>>

\* the sessions the builder has appended an example for
LabelledSessions ==
    {training_examples[n].session_id : n \in DOMAIN training_examples}

\* one iteration of the position loop: the item the session shows at
\* position.  The session loop visits a session once, so a session is
\* labelled once at a position.
LabelItem ==
    /\ mode \in {"item", "label"}
    /\ \E s \in Sessions \ LabelledSessions, draw \in Draws :
          training_examples' =
              Append(training_examples,
                     LabelledExample(variant, s, ShownDoc, position,
                                     interaction_lookup, draw))
    /\ UNCHANGED <<variant, mode, interaction_events, interaction_lookup, position, notLabelVars>>

InitItem == mode = "item" /\ InitLabelVars
NextItem == BuildInteraction \/ LabelItem
SpecItem == InitItem /\ [][NextItem]_vars

InitLabel == mode = "label" /\ InitLabelVars
NextLabel == GivenLookupRecord \/ LabelItem
SpecLabel == InitLabel /\ [][NextLabel]_vars

-----------------------------------------------------------------------------
(* The lookup key on identifiers that hold the separator.  The identifiers   *)
(* are strings of the telemetry; nothing in either trainer restricts their   *)
(* characters.                                                               *)

KeySessions == {"A", "A_d"}
KeyDocs == {"1", "d_1"}

KeyedEventSet ==
    [session_id : KeySessions, document_id : KeyDocs, position : {0},
     type : {"view", "click"}, conversational_detection : {FALSE}]

InitKey ==
    /\ mode = "key"
    /\ variant \in Variants
    /\ IdleFeat
    /\ IdleGroup
    /\ IdleBuild
    /\ IdlePipe
    /\ IdleTrain
    /\ IdleNorm
    /\ IdleDeploy
    /\ interaction_events = << >>
    /\ interaction_lookup = << >>
    /\ training_examples = << >>
    /\ position = 1

\* the lookup builder consumes the next interaction event
BuildKeyedInteraction ==
    /\ mode = "key"
    /\ training_examples = << >>
    /\ Len(interaction_events) < MaxInteractions
    /\ \E event \in KeyedEventSet :
          /\ interaction_events' = Append(interaction_events, event)
          /\ interaction_lookup' = AddInteraction(variant, interaction_lookup, event)
    /\ UNCHANGED <<variant, mode, training_examples, position, notLabelVars>>

\* one iteration of the position loop for an item of a session
LabelKeyedItem ==
    /\ mode = "key"
    /\ training_examples = << >>
    /\ \E s \in KeySessions, d \in KeyDocs, draw \in Draws :
          training_examples' =
              <<LabelledExample(variant, s, d, position, interaction_lookup, draw)>>
    /\ UNCHANGED <<variant, mode, interaction_events, interaction_lookup, position,
                   notLabelVars>>

NextKey == BuildKeyedInteraction \/ LabelKeyedItem

SpecKey == InitKey /\ [][NextKey]_vars

-----------------------------------------------------------------------------
(* Actions of the extractor specification: the feature mapping of one example, *)
(* the item session "A" shows at position                                     *)

\* the lookups the labeler may be handed: none, or one click on the item
FeatLookups ==
    {<< >>,
     Put(<< >>, LookupKey("A", ShownDoc),
         <<[position |-> 0, type |-> "click", conversational |-> FALSE]>>)}

InitFeat ==
    /\ mode = "feat"
    /\ variant \in Variants
    /\ position \in Positions
    /\ interaction_events = << >>
    /\ interaction_lookup \in FeatLookups
    /\ training_examples = << >>
    /\ es_index \in EsAnswers
    /\ query \in Queries
    /\ enrich_result = NoneVal
    /\ features = NoneVal
    /\ feat_pc = "start"
    /\ IdleGroup
    /\ IdleBuild
    /\ IdlePipe
    /\ IdleTrain
    /\ IdleNorm
    /\ IdleDeploy

\* a call of enrich_with_property_data
CallEnrichWithPropertyData ==
    /\ mode = "feat"
    /\ feat_pc = "start"
    /\ enrich_result' = EnrichWithPropertyData(variant, es_index, query)
    /\ feat_pc' = "enrich_returned"
    /\ UNCHANGED <<variant, mode, labelVars, es_index, query, features, notFeatVars>>

\* the base features of the example; len(query) raises on a null query
ExtractBaseFeatures ==
    /\ mode = "feat"
    /\ feat_pc = "start"
    /\ IF query = NoneVal
       THEN /\ feat_pc' = "raised"
            /\ UNCHANGED features
       ELSE /\ \E noise \in Noises :
                  features' = BaseFeatures(variant, position, query, noise)
            /\ feat_pc' = "base"
    /\ UNCHANGED <<variant, mode, labelVars, es_index, query, enrich_result, notFeatVars>>

\* the enrichment of the example's mapping
EnrichFeatures ==
    /\ mode = "feat"
    /\ feat_pc = "base"
    /\ features' = EnrichFeaturesWithPropertyData(variant, features, es_index, query)
    /\ feat_pc' = "enriched"
    /\ UNCHANGED <<variant, mode, labelVars, es_index, query, enrich_result, notFeatVars>>

\* the labeler's updates, and the example appended
LabelFeatures ==
    /\ mode = "feat"
    /\ feat_pc = "enriched"
    /\ \E draw \in Draws :
          LET r == CalculateRelevance(variant, LookupKey("A", ShownDoc), position,
                                      features, interaction_lookup, draw)
          IN  /\ features' = r.features
              /\ training_examples' =
                     Append(training_examples,
                            [features |-> r.features,
                             relevance |-> r.relevance,
                             qid |-> SessionQid("A"),
                             session_id |-> "A",
                             doc_id |-> ShownDoc,
                             position |-> position])
    /\ feat_pc' = "labelled"
    /\ UNCHANGED <<variant, mode, position, es_index, query, enrich_result,
                   interaction_events, interaction_lookup, notFeatVars>>

\* _prepare_training_data over the example (properties): missing names are
\* filled in the example's own mapping.  The legacy trainer indexes the mapping
\* by every canonical name and raises on a missing one.
PrepareTrainingData ==
    /\ mode = "feat"
    /\ feat_pc = "labelled"
    /\ IF variant = "properties"
       THEN /\ features' = FillMissingFeatures(variant, features)
            /\ training_examples' =
                   [training_examples EXCEPT
                       ![1].features = FillMissingFeatures(variant, features)]
            /\ feat_pc' = "prepared"
       ELSE /\ feat_pc' = IF FeatureNames(variant) \subseteq DOMAIN features
                          THEN "prepared" ELSE "raised"
            /\ UNCHANGED <<features, training_examples>>
    /\ UNCHANGED <<variant, mode, position, es_index, query, enrich_result,
                   interaction_events, interaction_lookup, notFeatVars>>

NextFeat ==
    \/ CallEnrichWithPropertyData
    \/ ExtractBaseFeatures
    \/ EnrichFeatures
    \/ LabelFeatures
    \/ PrepareTrainingData

SpecFeat == InitFeat /\ [][NextFeat]_vars

-----------------------------------------------------------------------------
(* The split and the grouping of train_xgboost_model.  A row is named by the  *)
(* index of its example in training_examples: X, y and qids are parallel      *)
(* arrays, sliced and masked alike.                                          *)

Qids == {1, 2}

\* the lists of examples the trainer may be handed: a feature vector (named by
\* its index), a grade and a qid each
ExampleLists ==
    UNION {{[i \in 1..n |-> [features |-> i, relevance |-> i % 3, qid |-> qs[i]]] :
               qs \in [1..n -> Qids]} : n \in 0..MaxRows}

RECURSIVE Perms(_)
Perms(S) ==
    IF S = {} THEN {<< >>}
    ELSE UNION {{<<x>> \o perm : perm \in Perms(S \ {x})} : x \in S}

RECURSIVE SumSeq(_)
SumSeq(q) == IF q = << >> THEN 0 ELSE Head(q) + SumSeq(Tail(q))

\* np.unique: the members of S in ascending order
RECURSIVE Unique(_)
Unique(S) ==
    IF S = {} THEN << >>
    ELSE LET m == CHOOSE x \in S : \A y \in S : x <= y
         IN  <<m>> \o Unique(S \ {m})

\* the qids of a sequence of rows
RowQids(examples, rows) == [i \in DOMAIN rows |-> examples[rows[i]].qid]
RowLabels(examples, rows) == [i \in DOMAIN rows |-> examples[rows[i]].relevance]
QidSet(examples, rows) == {examples[rows[i]].qid : i \in DOMAIN rows}

\* rows[qids == qid]
Masked(examples, rows, qid) ==
    SelectSeq(rows, LAMBDA r : examples[r].qid = qid)

\* ceil(0.2 * n), the size of the test split
TestSize(n) == (2 * n + 9) \div 10

\* stratify=qids (legacy): the split raises unless every qid has two rows and
\* each side can hold a row of every qid
StratifyRaises(examples) ==
    LET all == [i \in DOMAIN examples |-> i]
        n == Len(examples)
        classes == QidSet(examples, all)
    IN  \/ \E q \in classes : Len(Masked(examples, all, q)) < 2
        \/ TestSize(n) < Cardinality(classes)
        \/ n - TestSize(n) < Cardinality(classes)

\* stratify=qids (legacy): the train side takes of each qid its share of the
\* rows rounded down, and the rows still to place go to the qids with the
\* largest remainders, ties broken at random; the test side takes the rest
Stratified(examples, train) ==
    LET all == [i \in DOMAIN examples |-> i]
        n == Len(examples)
        n_train == n - TestSize(n)
        count(q) == Len(Masked(examples, all, q))
        floored(q) == (count(q) * n_train) \div n
        remainder(q) == (count(q) * n_train) % n
        taken(q) == Len(Masked(examples, train, q))
    IN  /\ \A q \in QidSet(examples, all) :
              floored(q) <= taken(q) /\ taken(q) <= floored(q) + 1
        /\ \A q1, q2 \in QidSet(examples, all) :
              (taken(q1) = floored(q1) + 1 /\ taken(q2) = floored(q2))
                  => remainder(q1) >= remainder(q2)

\* train_test_split(X, y, qids, test_size=0.2, ...): the rows shuffled, the
\* first TestSize of them the test split, the others the train split
Splits(v, examples) ==
    LET n == Len(examples)
        all == {[train |-> SubSeq(perm, TestSize(n) + 1, n),
                 test |-> SubSeq(perm, 1, TestSize(n))] : perm \in Perms(1..n)}
    IN  IF v = "legacy"
        THEN {sp \in all : Stratified(examples, sp.train)}
        ELSE all

\* the split raises ValueError: no row, an empty train split, or (legacy) a
\* stratification that cannot be made
SplitRaises(v, examples) ==
    \/ Len(examples) = 0
    \/ Len(examples) - TestSize(Len(examples)) = 0
    \/ v = "legacy" /\ StratifyRaises(examples)

RECURSIVE ConcatBlocks(_, _, _)
ConcatBlocks(examples, rows, unique_qids) ==
    IF unique_qids = << >> THEN << >>
    ELSE Masked(examples, rows, Head(unique_qids))
             \o ConcatBlocks(examples, rows, Tail(unique_qids))

NoMatrix == [is_none |-> TRUE]

\* _prepare_grouped_data (properties)
PrepareGroupedData(examples, rows) ==
    LET unique_qids == Unique(QidSet(examples, rows))
        X_sorted == ConcatBlocks(examples, rows, unique_qids)
        group_sizes == [k \in DOMAIN unique_qids |->
                           Len(Masked(examples, rows, unique_qids[k]))]
    IN  IF group_sizes = << >> THEN NoMatrix
        ELSE IF SumSeq(group_sizes) # Len(X_sorted) THEN NoMatrix
        ELSE IF X_sorted = << >> THEN NoMatrix
        ELSE [is_none |-> FALSE,
              X |-> X_sorted,
              y |-> RowLabels(examples, X_sorted),
              groups |-> group_sizes]

\* xgb.DMatrix(X, label=y) and set_group([np.sum(qids == qid) for qid in
\* np.unique(qids)]) (legacy)
CreateDMatrix(examples, rows) ==
    LET unique_qids == Unique(QidSet(examples, rows))
    IN  [is_none |-> FALSE,
         X |-> rows,
         y |-> RowLabels(examples, rows),
         groups |-> [k \in DOMAIN unique_qids |->
                        Len(Masked(examples, rows, unique_qids[k]))]]

GroupedData(v, examples, rows) ==
    IF v = "properties" THEN PrepareGroupedData(examples, rows)
    ELSE CreateDMatrix(examples, rows)

InitGroup ==
    /\ mode = "group"
    /\ variant \in Variants
    /\ training_examples \in ExampleLists
    /\ interaction_events = << >>
    /\ interaction_lookup = << >>
    /\ position = 1
    /\ IdleFeat
    /\ IdleBuild
    /\ IdlePipe
    /\ IdleTrain
    /\ IdleNorm
    /\ IdleDeploy
    /\ split_train = << >>
    /\ split_test = << >>
    /\ train_data = NoMatrix
    /\ test_data = NoMatrix
    /\ group_pc = "start"

\* the split of the examples
SplitTrainingData ==
    /\ mode = "group"
    /\ group_pc = "start"
    /\ IF SplitRaises(variant, training_examples)
       THEN /\ group_pc' = "raised"
            /\ UNCHANGED <<split_train, split_test>>
       ELSE /\ \E sp \in Splits(variant, training_examples) :
                  /\ split_train' = sp.train
                  /\ split_test' = sp.test
            /\ group_pc' = "split"
    /\ UNCHANGED <<variant, mode, training_examples, train_data, test_data,
                   notGroupVars>>

\* the train matrix
GroupTrainData ==
    /\ mode = "group"
    /\ group_pc = "split"
    /\ train_data' = GroupedData(variant, training_examples, split_train)
    /\ group_pc' = "train_grouped"
    /\ UNCHANGED <<variant, mode, training_examples, split_train, split_test,
                   test_data, notGroupVars>>

\* the test matrix; the properties trainer returns failure when either matrix
\* is None, otherwise both matrices go to the fit
GroupTestData ==
    /\ mode = "group"
    /\ group_pc = "train_grouped"
    /\ test_data' = GroupedData(variant, training_examples, split_test)
    /\ group_pc' = IF train_data.is_none \/ test_data'.is_none
                   THEN "failed" ELSE "grouped"
    /\ UNCHANGED <<variant, mode, training_examples, split_train, split_test,
                   train_data, notGroupVars>>

NextGroup == SplitTrainingData \/ GroupTrainData \/ GroupTestData

SpecGroup == InitGroup /\ [][NextGroup]_vars

-----------------------------------------------------------------------------
(* The training-set builder.  The feature mapping of an example is cut down   *)
(* to its interaction-derived entries here; the extractor specification has   *)
(* the whole mapping.                                                        *)

BuildSessions == Sessions \cup {"C"}

\* what results_lookup may hold for one session: no entry (NoneVal), an empty
\* mapping, or some positions with their document ids
SessionResults ==
    {<< >>,
     Put(Put(<< >>, 1, "d1"), 2, "d2"),
     Put(Put(<< >>, 2, "d1"), 3, "d2"),
     Put(Put(Put(<< >>, 1, "d1"), 10, "d2"), 11, "d1")}

ResultsLookups ==
    UNION {[present -> SessionResults] : present \in SUBSET BuildSessions}

ResultCounts == {0, 2, 12}

\* query_metadata.items() (properties): at most one entry a session
MetadataLists ==
    {SelectRecs(<<[session_id |-> "A", results_count |-> rc["A"]],
                  [session_id |-> "B", results_count |-> rc["B"]],
                  [session_id |-> "C", results_count |-> rc["C"]]>>,
                [e \in [session_id : BuildSessions, results_count : ResultCounts]
                   |-> e.session_id \in present]) :
        rc \in [BuildSessions -> ResultCounts], present \in SUBSET BuildSessions}

\* search_events (legacy): every agent_search event of the last seven days; a
\* session may have searched more than once, an event may lack its session id
SearchEventLists ==
    MetadataLists
    \cup {Append(l, e) : l \in MetadataLists,
                         e \in [session_id : {"A"}, results_count : ResultCounts]
                               \cup [session_id : {NoneVal}, results_count : {2}]}

\* the interaction lookup of the builder's runs: one click on document d1 in
\* every session
BuildLookup ==
    [key \in {LookupKey(session_id, "d1") : session_id \in BuildSessions} |->
        <<[position |-> 0, type |-> "click", conversational |-> FALSE]>>]

\* _verify_document_exists (properties); the legacy builder does not ask
VerifyDocumentExists(v, doc_id, missing) ==
    v = "properties" => doc_id \notin missing

\* the positions of a session the position loop appends an example for
EmittedPositions(v, results_count, session_results, missing) ==
    {pos \in 1..Min(10, results_count) :
        /\ pos \in DOMAIN session_results
        /\ VerifyDocumentExists(v, session_results[pos], missing)}

\* _process_search_positions: the examples of one session, by ascending
\* position; draws[pos] is np.random.choice's pick at pos
RECURSIVE ProcessSearchPositions(_, _, _, _, _, _, _)
ProcessSearchPositions(v, session_id, session_results, lookup, draws, from, positions) ==
    IF from > MaxPosition THEN << >>
    ELSE (IF from \in positions
          THEN <<LabelledExample(v, session_id, session_results[from], from,
                                 lookup, draws[from])>>
          ELSE << >>)
         \o ProcessSearchPositions(v, session_id, session_results, lookup,
                                   draws, from + 1, positions)

InitBuild ==
    /\ mode = "build"
    /\ variant \in Variants
    /\ results_lookup \in ResultsLookups
    /\ query_metadata \in (IF variant = "properties" THEN MetadataLists
                           ELSE SearchEventLists)
    /\ missing_docs \in {{}, {"d2"}}
    /\ build_next = 1
    /\ interaction_events = << >>
    /\ interaction_lookup = BuildLookup
    /\ training_examples = << >>
    /\ position = 1
    /\ IdleFeat
    /\ IdleGroup
    /\ IdlePipe
    /\ IdleTrain
    /\ IdleNorm
    /\ IdleDeploy

\* one iteration of the loop of _process_search_results_for_training
\* (properties) or of the loop over search_events of prepare_training_features
\* (legacy)
ProcessSession ==
    /\ mode = "build"
    /\ build_next <= Len(query_metadata)
    /\ LET meta == query_metadata[build_next]
           session_id == meta.session_id
           session_results == IF session_id \in DOMAIN results_lookup
                              THEN results_lookup[session_id] ELSE << >>
           positions == EmittedPositions(variant, meta.results_count,
                                         session_results, missing_docs)
       IN  IF session_id = NoneVal \/ meta.results_count = 0
              \/ session_results = << >>
           THEN UNCHANGED training_examples
           ELSE \E draws \in [positions -> Draws] :
                   training_examples' =
                       training_examples
                       \o ProcessSearchPositions(variant, session_id,
                              session_results, interaction_lookup, draws, 1,
                              positions)
    /\ build_next' = build_next + 1
    /\ UNCHANGED <<variant, mode, results_lookup, query_metadata, missing_docs,
                   notBuildVars>>

NextBuild == ProcessSession

SpecBuild == InitBuild /\ [][NextBuild]_vars

-----------------------------------------------------------------------------
(* The entry points: run_pipeline, train_model and the train-and-deploy       *)
(* command.  The legacy trainer has run_pipeline only.                       *)

\* has_enough_interactions(min_interactions=100) of the prerequisite checks
MinInteractionsGate == 100

\* len(training_examples) < 50
MinTrainingExamples == 50

\* avg_ndcg > 0.6, in hundredths
NdcgThreshold == 60

\* the score _evaluate_model returns when no group has two rows, in hundredths
DefaultNdcg == 70

Entries == {"run_pipeline", "train_model", "train_and_deploy_model"}

\* the numbers of qualifying interaction events the store may hold
EventCounts == {0, 50, 99, 100, 150}

\* the values LTR_MIN_INTERACTIONS gives the default of min_interactions; 100
\* when it is not set
MinInteractionsValues == {50, 100, 150}

\* the lengths the training set may have
ExampleCounts == {0, 49, 50, 60}

\* the mean NDCG of the scored groups, in hundredths
NdcgScores == {0, 59, 60, 61, 100}

\* the minimum the count is held against: the caller's argument in
\* run_pipeline, the default of the parameter in train_model
InteractionsThreshold(e, min_default) ==
    IF e = "run_pipeline" THEN MinInteractionsGate ELSE min_default

\* has_enough_interactions, faulty: a count that fails passes the gate
HasEnoughIgnoringFailure(st, threshold) ==
    st.count_fails \/ st.count >= threshold

\* has_enough_interactions
HasEnoughInteractions(st, threshold) ==
    IF st.count_fails THEN FALSE ELSE st.count >= threshold

InitPipe ==
    /\ mode = "pipe"
    /\ variant \in Variants
    /\ entry \in (IF variant = "properties" THEN Entries ELSE {"run_pipeline"})
    /\ pc = IF entry = "run_pipeline" THEN "count" ELSE "connect"
    /\ store \in [count : EventCounts, count_fails : BOOLEAN]
    /\ min_interactions \in (IF variant = "properties" THEN MinInteractionsValues
                             ELSE {MinInteractionsGate})
    /\ extracted = [results |-> "none", interactions |-> "none"]
    /\ n_examples = 0
    /\ avg_ndcg = 0
    /\ train_result = "none"
    /\ calls = << >>
    /\ result = "running"
    /\ interaction_events = << >>
    /\ interaction_lookup = << >>
    /\ training_examples = << >>
    /\ position = 1
    /\ IdleFeat
    /\ IdleGroup
    /\ IdleBuild
    /\ IdleTrain
    /\ IdleNorm
    /\ IdleDeploy

\* has_enough_interactions, and the caller's return on False
CheckInteractions ==
    /\ mode = "pipe"
    /\ pc = "count"
    /\ calls' = Append(calls, "has_enough_interactions")
    /\ IF HasEnoughInteractions(store, InteractionsThreshold(entry, min_interactions))
       THEN /\ pc' = IF entry = "run_pipeline" THEN "connect" ELSE "extract"
            /\ UNCHANGED result
       ELSE /\ pc' = "done"
            /\ result' = "failure"
    /\ UNCHANGED <<variant, mode, entry, store, min_interactions, extracted,
                   n_examples, avg_ndcg, train_result, notPipeVars>>

\* check_connection, and the caller's return on False
CheckConnection ==
    /\ mode = "pipe"
    /\ pc = "connect"
    /\ calls' = Append(calls, "check_connection")
    /\ \E connected \in BOOLEAN :
          IF connected
          THEN /\ pc' = IF entry = "run_pipeline" THEN "extract" ELSE "count"
               /\ UNCHANGED result
          ELSE /\ pc' = "done"
               /\ result' = "failure"
    /\ UNCHANGED <<variant, mode, entry, store, min_interactions, extracted,
                   n_examples, avg_ndcg, train_result, notPipeVars>>

\* how an exception leaves the entry point: train_model catches it and
\* returns False, run_pipeline lets it through
RaiseOutcome(e) == IF e = "run_pipeline" THEN "raised" ELSE "failure"

\* the extraction calls.  _extract_pipeline_data (properties run_pipeline)
\* stops at empty results and hands on None for an empty list of interaction
\* events; the legacy run_pipeline asks for ten search events; train_model
\* asks for nothing.
ExtractData ==
    /\ mode = "pipe"
    /\ pc = "extract"
    /\ \E results \in {"empty", "some"}, interactions \in {"empty", "some"} :
          IF entry = "run_pipeline" /\ variant = "properties"
          THEN IF results = "empty"
               THEN /\ calls' = Append(calls, "extract_search_results")
                    /\ extracted' = [results |-> "empty", interactions |-> "none"]
                    /\ pc' = "done"
                    /\ result' = "failure"
               ELSE /\ calls' = calls \o <<"extract_search_results",
                                          "extract_interaction_events">>
                    /\ extracted' = [results |-> "some",
                                     interactions |-> IF interactions = "empty"
                                                      THEN "None" ELSE "some"]
                    /\ pc' = "prepare"
                    /\ UNCHANGED result
          ELSE IF entry = "run_pipeline"
          THEN /\ calls' = calls \o <<"extract_search_events",
                                     "extract_search_results",
                                     "extract_interaction_events">>
               /\ extracted' = [results |-> results, interactions |-> interactions]
               /\ \E enough_search_events \in BOOLEAN :
                     IF enough_search_events
                     THEN pc' = "prepare" /\ UNCHANGED result
                     ELSE pc' = "done" /\ result' = "failure"
          ELSE /\ calls' = calls \o <<"extract_search_results",
                                     "extract_interaction_events">>
               /\ extracted' = [results |-> results, interactions |-> interactions]
               /\ pc' = "prepare"
               /\ UNCHANGED result
    /\ UNCHANGED <<variant, mode, entry, store, min_interactions, n_examples,
                   avg_ndcg, train_result, notPipeVars>>

\* the lengths prepare_training_features can return: an example needs a
\* session with results
PreparedCounts(ex) == IF ex.results = "empty" THEN {0} ELSE ExampleCounts

\* the caller's test of the training set: fewer than fifty examples in the
\* properties run_pipeline, an empty list in the legacy one, none in train_model
TooFewExamples(v, e, n) ==
    IF e # "run_pipeline" THEN FALSE
    ELSE IF v = "properties" THEN n < MinTrainingExamples
    ELSE n = 0

\* prepare_training_features and the caller's test of its result.  The
\* properties _build_interaction_lookup iterates over its argument, which
\* raises TypeError on None.
PrepareFeatures ==
    /\ mode = "pipe"
    /\ pc = "prepare"
    /\ calls' = Append(calls, "prepare_training_features")
    /\ IF extracted.interactions = "None"
       THEN /\ pc' = "done"
            /\ result' = RaiseOutcome(entry)
            /\ UNCHANGED n_examples
       ELSE \E n \in PreparedCounts(extracted) :
               /\ n_examples' = n
               /\ IF TooFewExamples(variant, entry, n)
                  THEN pc' = "done" /\ result' = "failure"
                  ELSE pc' = "train" /\ UNCHANGED result
    /\ UNCHANGED <<variant, mode, entry, store, min_interactions, extracted,
                   avg_ndcg, train_result, notPipeVars>>

\* train_xgboost_model up to the fit: the legacy trainer returns False below
\* fifty examples; train_test_split raises ValueError on an empty set and,
\* stratified (legacy), on a group it cannot split
StartTraining ==
    /\ mode = "pipe"
    /\ pc = "train"
    /\ calls' = Append(calls, "train_xgboost_model")
    /\ IF variant = "legacy" /\ n_examples < MinTrainingExamples
       THEN /\ train_result' = "failed"
            /\ pc' = "done"
            /\ result' = "failure"
       ELSE \E split_raises \in (IF n_examples = 0 THEN {TRUE}
                                 ELSE IF variant = "legacy" THEN BOOLEAN
                                 ELSE {FALSE}) :
               IF split_raises
               THEN /\ train_result' = "raised"
                    /\ pc' = "done"
                    /\ result' = RaiseOutcome(entry)
               ELSE /\ pc' = "fit"
                    /\ UNCHANGED <<train_result, result>>
    /\ UNCHANGED <<variant, mode, entry, store, min_interactions, extracted,
                   n_examples, avg_ndcg, notPipeVars>>

\* the fit: _fit_xgboost_model returns False on any exception and
\* train_xgboost_model hands that on; the legacy xgb.train raises
FitModel ==
    /\ mode = "pipe"
    /\ pc = "fit"
    /\ calls' = Append(calls, "fit")
    /\ \E fitted \in BOOLEAN :
          IF fitted
          THEN /\ pc' = "evaluate"
               /\ UNCHANGED <<train_result, result>>
          ELSE /\ train_result' = IF variant = "properties" THEN "failed"
                                  ELSE "raised"
               /\ pc' = "done"
               /\ result' = IF variant = "properties" THEN "failure"
                            ELSE RaiseOutcome(entry)
    /\ UNCHANGED <<variant, mode, entry, store, min_interactions, extracted,
                   n_examples, avg_ndcg, notPipeVars>>

Evaluations == {"error", "no_groups", "scored"}

\* the success test at the end of train_xgboost_model, faulty: the threshold
\* itself passes
TrainPassedAtThreshold(score) == score >= NdcgThreshold

\* the success test at the end of train_xgboost_model
TrainPassed(score) == score > NdcgThreshold

\* _evaluate_model: 0 on an exception, the default when no group has two
\* rows, the mean otherwise; the legacy trainer scores 0 without such a group
EvaluateScore(v, evaluation, score) ==
    IF evaluation = "error" THEN 0
    ELSE IF evaluation = "no_groups"
    THEN IF v = "properties" THEN DefaultNdcg ELSE 0
    ELSE score

\* the evaluation, the threshold and the caller's test of
\* train_xgboost_model's result.  In the legacy trainer a failing predict
\* raises.
EvaluateModel ==
    /\ mode = "pipe"
    /\ pc = "evaluate"
    /\ calls' = Append(calls, "evaluate")
    /\ \E evaluation \in Evaluations, score \in NdcgScores :
          IF variant = "legacy" /\ evaluation = "error"
          THEN /\ train_result' = "raised"
               /\ pc' = "done"
               /\ result' = RaiseOutcome(entry)
               /\ UNCHANGED avg_ndcg
          ELSE /\ avg_ndcg' = EvaluateScore(variant, evaluation, score)
               /\ IF TrainPassed(avg_ndcg')
                  THEN /\ train_result' = "passed"
                       /\ pc' = IF entry = "run_pipeline" THEN "deploy" ELSE "save"
                       /\ UNCHANGED result
                  ELSE /\ train_result' = "failed"
                       /\ pc' = "done"
                       /\ result' = "failure"
    /\ UNCHANGED <<variant, mode, entry, store, min_interactions, extracted,
                   n_examples, notPipeVars>>

\* _save_model_metadata_and_files at the end of train_model, and the
\* command's test of train_model's result
SaveModel ==
    /\ mode = "pipe"
    /\ pc = "save"
    /\ calls' = Append(calls, "_save_model_metadata_and_files")
    /\ \E saved \in BOOLEAN :
          IF ~saved
          THEN pc' = "done" /\ result' = "failure"
          ELSE IF entry = "train_model"
          THEN pc' = "done" /\ result' = "success"
          ELSE pc' = "load" /\ UNCHANGED result
    /\ UNCHANGED <<variant, mode, entry, store, min_interactions, extracted,
                   n_examples, avg_ndcg, train_result, notPipeVars>>

\* deploy_model up to the deployment: the connection, the model file and its
\* load
LoadModel ==
    /\ mode = "pipe"
    /\ pc = "load"
    /\ calls' = Append(calls, "deploy_model")
    /\ \E connected \in BOOLEAN, loaded \in BOOLEAN :
          IF connected /\ loaded
          THEN pc' = "deploy" /\ UNCHANGED result
          ELSE pc' = "done" /\ result' = "failure"
    /\ UNCHANGED <<variant, mode, entry, store, min_interactions, extracted,
                   n_examples, avg_ndcg, train_result, notPipeVars>>

\* deploy_model_to_elasticsearch and the caller's test of its result
DeployModelToElasticsearch ==
    /\ mode = "pipe"
    /\ pc = "deploy"
    /\ calls' = Append(calls, "deploy_model_to_elasticsearch")
    /\ \E deployed \in BOOLEAN :
          IF ~deployed
          THEN pc' = "done" /\ result' = "failure"
          ELSE IF entry = "run_pipeline"
          THEN pc' = "test" /\ UNCHANGED result
          ELSE pc' = "done" /\ result' = "success"
    /\ UNCHANGED <<variant, mode, entry, store, min_interactions, extracted,
                   n_examples, avg_ndcg, train_result, notPipeVars>>

\* test_native_ltr and the end of run_pipeline
TestNativeLtr ==
    /\ mode = "pipe"
    /\ pc = "test"
    /\ calls' = Append(calls, "test_native_ltr")
    /\ pc' = "done"
    /\ \E tested \in BOOLEAN :
          result' = IF tested THEN "success" ELSE "failure"
    /\ UNCHANGED <<variant, mode, entry, store, min_interactions, extracted,
                   n_examples, avg_ndcg, train_result, notPipeVars>>

NextPipe ==
    \/ CheckInteractions
    \/ CheckConnection
    \/ ExtractData
    \/ PrepareFeatures
    \/ StartTraining
    \/ FitModel
    \/ EvaluateModel
    \/ SaveModel
    \/ LoadModel
    \/ DeployModelToElasticsearch
    \/ TestNativeLtr

SpecPipe == InitPipe /\ [][NextPipe]_vars

-----------------------------------------------------------------------------
(* train_xgboost_model from the scaler on: standardize, group, fit, evaluate. *)
(* Rows are named by their index in training_examples, as in the split and    *)
(* the grouping above; X_scaled holds the standardized vector of each row.    *)
(* Raw feature values are small integers here, standardized ones hundredths.  *)

MaxTrainRows == 2
MaxTestRows == 3
MaxEvaluations == 2

\* the feature vector of an example at a position, clicked or not
FeatureRow(v, pos, clicks) ==
    [k \in FeatureNames(v) |->
        CASE k = "position" -> pos
          [] k \in {"click_count", "interaction_rate", "user_engagement_score",
                    "position_engagement_signal"} -> clicks
          [] k \in {"price_value_competitiveness", "absolute_price_tier"} -> 3 - pos
          [] k = "view_count" -> 1
          [] OTHER -> 0]

TrainingExample(v, pos, clicks, qid) ==
    [features |-> FeatureRow(v, pos, clicks),
     relevance |-> IF clicks = 1 THEN 4 ELSE 2 - pos + 1,
     qid |-> qid]

\* the sequences over S of a length in lo..hi
SeqsOver(S, lo, hi) == UNION {[1..n -> S] : n \in lo..hi}

\* the train splits and the test splits a run may be handed, neither empty:
\* train_test_split raises on an empty side
TrainSplits(v) ==
    SeqsOver({TrainingExample(v, pos, clicks, 1) : pos \in 1..2, clicks \in 0..1},
             1, MaxTrainRows)

TestSplits(v) ==
    SeqsOver({TrainingExample(v, pos, pos - 1, qid) : pos \in 1..2, qid \in Qids},
             1, MaxTestRows)

\* floor(sqrt(n)), counted up from r
RECURSIVE SqrtFrom(_, _)
SqrtFrom(n, r) == IF (r + 1) * (r + 1) > n THEN r ELSE SqrtFrom(n, r + 1)

\* StandardScaler.fit on the rows of a matrix: per column the mean and the
\* standard deviation, in hundredths; a column without variance has scale 1
FitScaler(examples, rows, columns) ==
    LET n == Len(rows)
        column(k) == [i \in 1..n |-> 100 * examples[rows[i]].features[k]]
        mean(k) == SumSeq(column(k)) \div n
        squares(k) == [i \in 1..n |-> (column(k)[i] - mean(k)) * (column(k)[i] - mean(k))]
        std(k) == SqrtFrom(SumSeq(squares(k)) \div n, 0)
    IN  [n_fits |-> 1,
         fit_on |-> rows,
         mean |-> [k \in columns |-> mean(k)],
         scale |-> [k \in columns |-> IF std(k) = 0 THEN 100 ELSE std(k)]]

\* StandardScaler.transform of one vector of raw values, in hundredths
Transform(sc, vector) ==
    [k \in DOMAIN vector |-> ((100 * vector[k] - sc.mean[k]) * 100) \div sc.scale[k]]

\* a faulty choice of the rows to fit the scaler on: those of both splits
ScalerFitRowsBoth(train, test) == train \o test

\* the rows self.scaler.fit_transform is handed: X_train
ScalerFitRows(train, test) == train

InitTrain ==
    /\ mode = "train"
    /\ variant \in Variants
    /\ \E train \in TrainSplits(variant), test \in TestSplits(variant) :
          /\ training_examples = train \o test
          /\ split_train = [i \in 1..Len(train) |-> i]
          /\ split_test = [i \in 1..Len(test) |-> Len(train) + i]
    /\ train_data = NoMatrix
    /\ test_data = NoMatrix
    /\ group_pc = "idle"
    /\ train_pc = "scale"
    /\ scaler = [n_fits |-> 0, fit_on |-> << >>, mean |-> << >>, scale |-> << >>]
    /\ X_scaled = << >>
    /\ X_train_modified = << >>
    /\ X_test_modified = << >>
    /\ model = [fitted |-> FALSE]
    /\ steps = << >>
    /\ ndcg_scores = << >>
    /\ eval_returns = << >>
    /\ interaction_events = << >>
    /\ interaction_lookup = << >>
    /\ position = 1
    /\ IdleFeat
    /\ IdleBuild
    /\ IdlePipe
    /\ IdleNorm
    /\ IdleDeploy

\* X_train_scaled = self.scaler.fit_transform(X_train) and
\* X_test_scaled = self.scaler.transform(X_test)
ScaleFeatures ==
    /\ mode = "train"
    /\ train_pc = "scale"
    /\ scaler' = FitScaler(training_examples,
                            ScalerFitRows(split_train, split_test),
                            FeatureNames(variant))
    /\ X_scaled' = [i \in DOMAIN training_examples |->
                       Transform(scaler', training_examples[i].features)]
    /\ steps' = steps \o <<"fit_transform", "transform">>
    /\ train_pc' = "group"
    /\ UNCHANGED <<variant, mode, training_examples, groupVars, X_train_modified,
                   X_test_modified, model, ndcg_scores, eval_returns,
                   notTrainVars>>

\* a faulty test of the grouped matrices that looks at the train matrix only
GroupingFailedTrainOnly(train, test) == train.is_none

\* if not train_data or not test_data
GroupingFailed(train, test) == train.is_none \/ test.is_none

\* the grouping of both splits (properties: _prepare_grouped_data and the test
\* of its results; legacy: DMatrix and set_group)
GroupSplits ==
    /\ mode \in {"train", "regroup"}
    /\ train_pc = "group"
    /\ train_data' = GroupedData(variant, training_examples, split_train)
    /\ test_data' = GroupedData(variant, training_examples, split_test)
    /\ steps' = Append(steps, "group")
    /\ train_pc' = IF GroupingFailed(train_data', test_data')
                   THEN "failed" ELSE "fit"
    /\ UNCHANGED <<variant, mode, training_examples, split_train, split_test,
                   group_pc, scaler, X_scaled, X_train_modified,
                   X_test_modified, model, ndcg_scores, eval_returns,
                   notTrainVars>>

\* an array that shares the memory of the matrix it was made from, where
\* .copy() gives one of its own
AliasArray(X) == [data |-> X, shares_memory |-> TRUE]

\* train_data['X'].copy()
CopyArray(X) == [data |-> X, shares_memory |-> FALSE]

\* the rows of a grouped matrix as vectors
MatrixRows(scaled, m) == [i \in DOMAIN m.X |-> scaled[m.X[i]]]

\* what an in-place write to an array leaves in the matrix it was made from
WrittenThrough(scaled, m, array) ==
    IF array.shares_memory
    THEN [r \in DOMAIN scaled |->
             IF \E i \in DOMAIN m.X : m.X[i] = r
             THEN array.data[CHOOSE i \in DOMAIN m.X : m.X[i] = r]
             ELSE scaled[r]]
    ELSE scaled

\* the names _fit_xgboost_model looks up and the factor of each, in the order
\* of the statements
AmplifySteps ==
    << <<"position", 20>>, <<"position_engagement_signal", 15>>,
       <<"user_engagement_score", 10>>, <<"interaction_rate", 10>>,
       <<"click_count", 10>>, <<"conversational_detection", 10>>,
       <<"low_mode_match_score", 200>>, <<"high_mode_match_score", 30>>,
       <<"price_value_competitiveness", 100>>, <<"absolute_price_tier", 100>> >>

\* X[:, feature_names.index(name)] *= factor; a name that is not a feature
\* name raises ValueError, which is caught, and nothing is multiplied
RECURSIVE Amplified(_, _)
Amplified(X, todo) ==
    IF todo = << >> THEN X
    ELSE LET name == Head(todo)[1]
             factor == Head(todo)[2]
             done == [i \in DOMAIN X |->
                         [k \in DOMAIN X[i] |->
                             IF k = name THEN X[i][k] * factor ELSE X[i][k]]]
         IN  Amplified(done, Tail(todo))

\* np.random.normal(0, 0.05, shape), in hundredths: one draw stands for the
\* whole array
FitNoises == {-5, 5}

Noised(X, noise) == [i \in DOMAIN X |-> [k \in DOMAIN X[i] |-> X[i][k] + noise]]

\* what the fit can learn: to score by rank, by clicks, or all rows alike
ModelKinds == {"by_position", "by_clicks", "constant"}

\* model.predict of one standardized vector
Predict(m, vector) ==
    CASE m.kind = "by_position" -> 0 - vector["position"]
      [] m.kind = "by_clicks" -> vector["click_count"]
      [] OTHER -> 0

\* the copies of both matrices
CopyMatrices ==
    /\ mode \in {"train", "regroup"}
    /\ variant = "properties"
    /\ train_pc = "fit"
    /\ X_train_modified' = CopyArray(MatrixRows(X_scaled, train_data))
    /\ X_test_modified' = CopyArray(MatrixRows(X_scaled, test_data))
    /\ steps' = Append(steps, "copy")
    /\ train_pc' = "amplify"
    /\ UNCHANGED <<variant, mode, training_examples, groupVars, scaler, X_scaled,
                   model, ndcg_scores, eval_returns, notTrainVars>>

\* the column amplification, in place on the copies
AmplifyColumns ==
    /\ mode = "train"
    /\ train_pc = "amplify"
    /\ X_train_modified' =
          [X_train_modified EXCEPT !.data = Amplified(@, AmplifySteps)]
    /\ X_test_modified' =
          [X_test_modified EXCEPT !.data = Amplified(@, AmplifySteps)]
    /\ X_scaled' = WrittenThrough(WrittenThrough(X_scaled, train_data,
                                                 X_train_modified'),
                                  test_data, X_test_modified')
    /\ steps' = Append(steps, "amplify")
    /\ train_pc' = "noise"
    /\ UNCHANGED <<variant, mode, training_examples, groupVars, scaler, model,
                   ndcg_scores, eval_returns, notTrainVars>>

\* the noise, in place on the copies
AddNoise ==
    /\ mode = "train"
    /\ train_pc = "noise"
    /\ \E train_noise \in FitNoises, test_noise \in FitNoises :
          /\ X_train_modified' =
                [X_train_modified EXCEPT !.data = Noised(@, train_noise)]
          /\ X_test_modified' =
                [X_test_modified EXCEPT !.data = Noised(@, test_noise)]
    /\ X_scaled' = WrittenThrough(WrittenThrough(X_scaled, train_data,
                                                 X_train_modified'),
                                  test_data, X_test_modified')
    /\ steps' = Append(steps, "noise")
    /\ train_pc' = "fit_call"
    /\ UNCHANGED <<variant, mode, training_examples, groupVars, scaler, model,
                   ndcg_scores, eval_returns, notTrainVars>>

\* self.model.fit (properties, where an exception makes _fit_xgboost_model
\* return False) and xgb.train (legacy, where it leaves train_xgboost_model)
FitRanker ==
    /\ mode = "train"
    /\ train_pc = IF variant = "properties" THEN "fit_call" ELSE "fit"
    /\ steps' = Append(steps, "fit")
    /\ \/ \E kind \in ModelKinds :
             /\ model' = [fitted |-> TRUE, kind |-> kind]
             /\ train_pc' = IF variant = "properties" THEN "importance"
                            ELSE "evaluate"
       \/ /\ train_pc' = IF variant = "properties" THEN "failed" ELSE "raised"
          /\ UNCHANGED model
    /\ UNCHANGED <<variant, mode, training_examples, groupVars, scaler, X_scaled,
                   X_train_modified, X_test_modified, ndcg_scores, eval_returns,
                   notTrainVars>>

\* the feature importance frame and _save_model_metadata, the end of
\* _fit_xgboost_model
ReportImportance ==
    /\ mode = "train"
    /\ train_pc = "importance"
    /\ steps' = Append(steps, "importance")
    /\ \E reported \in BOOLEAN :
          train_pc' = IF reported THEN "evaluate" ELSE "failed"
    /\ UNCHANGED <<variant, mode, training_examples, groupVars, scaler, X_scaled,
                   X_train_modified, X_test_modified, model, ndcg_scores,
                   eval_returns, notTrainVars>>

\* 1 / log2(rank + 1), in ten-thousandths
Discount(rank) ==
    CASE rank = 1 -> 10000 [] rank = 2 -> 6309 [] rank = 3 -> 5000
      [] rank = 4 -> 4306 [] OTHER -> 3868

RECURSIVE SumSet(_, _)
SumSet(S, f) ==
    IF S = {} THEN 0
    ELSE LET x == CHOOSE x \in S : TRUE
         IN  f[x] + SumSet(S \ {x}, f)

\* sklearn's discounted cumulative gain with tied scores averaged: the rows
\* of one predicted score share the ranks they occupy
TieAveragedDcg(y_true, y_score) ==
    LET rows == DOMAIN y_true
        tied(i) == {j \in rows : y_score[j] = y_score[i]}
        above(i) == Cardinality({j \in rows : y_score[j] > y_score[i]})
        ranks(i) == (above(i) + 1)..(above(i) + Cardinality(tied(i)))
        firsts == {i \in rows : \A j \in tied(i) : i <= j}
        share == [i \in firsts |->
                     (SumSet(tied(i), y_true)
                        * SumSet(ranks(i), [r \in ranks(i) |-> Discount(r)]))
                     \div Cardinality(tied(i))]
    IN  SumSet(firsts, share)

\* ndcg_score([y_true], [y_score], k) with k not below the number of rows,
\* in hundredths; 0 when no row is relevant
NdcgScore(y_true, y_score) ==
    LET ideal == TieAveragedDcg(y_true, y_true)
    IN  IF ideal = 0 THEN 0
        ELSE (TieAveragedDcg(y_true, y_score) * 100) \div ideal

\* the groups the evaluator walks, each the rows it slices out: the
\* consecutive ranges of the group sizes (properties), the rows of each
\* unique qid of the test split (legacy)
RECURSIVE Slices(_, _)
Slices(X, groups) ==
    IF groups = << >> THEN << >>
    ELSE <<SubSeq(X, 1, Head(groups))>>
             \o Slices(SubSeq(X, Head(groups) + 1, Len(X)), Tail(groups))

EvaluatedGroups(v, examples, m, test) ==
    IF v = "properties" THEN Slices(m.X, m.groups)
    ELSE LET unique_qids == Unique(QidSet(examples, test))
         IN  [k \in DOMAIN unique_qids |-> Masked(examples, test, unique_qids[k])]

\* a faulty choice of groups that scores every group, those of one row too
ScoredGroupsAll(groups) == groups

\* the groups that get a score: those with more than one row
ScoredGroups(groups) == SelectSeq(groups, LAMBDA g : Len(g) > 1)

\* the per-group scores of an evaluation
GroupScores(v, examples, scaled, m, test, ranker) ==
    LET groups == ScoredGroups(EvaluatedGroups(v, examples, m, test))
    IN  [k \in DOMAIN groups |->
            NdcgScore([i \in DOMAIN groups[k] |-> examples[groups[k][i]].relevance],
                      [i \in DOMAIN groups[k] |-> Predict(ranker, scaled[groups[k][i]])])]

\* a faulty aggregate whose default is the threshold itself
AggregateScoreAtThreshold(v, scores) ==
    IF scores = << >>
    THEN IF v = "properties" THEN NdcgThreshold ELSE 0
    ELSE SumSeq(scores) \div Len(scores)

\* what the evaluation returns for its per-group scores: their mean, or
\* without any the default (properties) or 0 (legacy)
AggregateScore(v, scores) ==
    IF scores = << >>
    THEN IF v = "properties" THEN DefaultNdcg ELSE 0
    ELSE SumSeq(scores) \div Len(scores)

PositionNames ==
    {"position", "position_log", "position_reciprocal", "position_bias_factor",
     "session_avg_position", "position_engagement_signal"}

\* _create_sample_feature_vector, the fractions dropped
SampleFeatureVector(v) ==
    [k \in FeatureNames(v) |->
        CASE k \in PositionNames -> 1
          [] k \in {"search_time_ms", "time_in_session_ms"} -> 150
          [] k \in {"elasticsearch_score", "query_complexity_score",
                    "user_engagement_score", "exact_match_score",
                    "bm25_title_score", "bm25_description_score",
                    "bm25_features_score", "bm25_headings_score",
                    "bm25_combined_score", "bedrooms_match_score",
                    "bathrooms_match_score", "geo_relevance_score"} -> 8
          [] k = "click_count" -> 2
          [] k \in {"view_count", "query_word_count", "session_query_count"} -> 5
          [] OTHER -> 1]

\* a faulty score-distribution check that fits the scaler on its probe
ProbeScalerRefit(sc, probe) ==
    [n_fits |-> sc.n_fits + 1,
     fit_on |-> <<"probe">>,
     mean |-> [k \in DOMAIN probe |-> 100 * probe[k]],
     scale |-> [k \in DOMAIN probe |-> 100]]

\* the scaler after _diagnose_score_distribution: self.scaler.transform only
ProbeScaler(sc, probe) == sc

\* _evaluate_model (properties) and the evaluation at the end of
\* train_xgboost_model (legacy).  With a score for some group the properties
\* evaluator goes on to _analyze_position_importance and the
\* score-distribution check, which transforms probe vectors.
EvaluateModelOnTest ==
    /\ mode = "train"
    /\ \/ train_pc = "evaluate"
       \/ /\ variant = "properties"
          /\ train_pc = "done"
          /\ Len(eval_returns) < MaxEvaluations
    /\ ndcg_scores' = GroupScores(variant, training_examples, X_scaled,
                                  test_data, split_test, model)
    /\ eval_returns' = Append(eval_returns, AggregateScore(variant, ndcg_scores'))
    /\ IF variant = "properties" /\ ndcg_scores' # << >>
       THEN /\ scaler' = ProbeScaler(scaler, SampleFeatureVector(variant))
            /\ steps' = steps \o <<"evaluate", "transform">>
       ELSE /\ UNCHANGED scaler
            /\ steps' = Append(steps, "evaluate")
    /\ train_pc' = "done"
    /\ UNCHANGED <<variant, mode, training_examples, groupVars, X_scaled,
                   X_train_modified, X_test_modified, model, notTrainVars>>

\* The grouping and the test of its results on arrays of any length, the
\* empty ones included.  train_test_split and the scaler raise on an empty
\* array, so within train_xgboost_model the grouping is handed none; here the
\* parallel arrays X, y, qids of each side are drawn freely.
MaxRegroupRows == 3

RegroupSplits(v) ==
    SeqsOver({TrainingExample(v, pos, pos - 1, qid) : pos \in 1..2, qid \in Qids},
             0, MaxRegroupRows)

InitRegroup ==
    /\ mode = "regroup"
    /\ variant = "properties"
    /\ \E train \in RegroupSplits(variant), test \in RegroupSplits(variant) :
          /\ training_examples = train \o test
          /\ split_train = [i \in 1..Len(train) |-> i]
          /\ split_test = [i \in 1..Len(test) |-> Len(train) + i]
    /\ train_data = NoMatrix
    /\ test_data = NoMatrix
    /\ group_pc = "idle"
    /\ train_pc = "group"
    /\ scaler = [n_fits |-> 1,
                 fit_on |-> split_train,
                 mean |-> [k \in FeatureNames(variant) |-> 0],
                 scale |-> [k \in FeatureNames(variant) |-> 100]]
    /\ X_scaled = [i \in DOMAIN training_examples |->
                      Transform(scaler, training_examples[i].features)]
    /\ X_train_modified = << >>
    /\ X_test_modified = << >>
    /\ model = [fitted |-> FALSE]
    /\ steps = << >>
    /\ ndcg_scores = << >>
    /\ eval_returns = << >>
    /\ interaction_events = << >>
    /\ interaction_lookup = << >>
    /\ position = 1
    /\ IdleFeat
    /\ IdleBuild
    /\ IdlePipe
    /\ IdleNorm
    /\ IdleDeploy

NextRegroup == GroupSplits \/ CopyMatrices

SpecRegroup == InitRegroup /\ [][NextRegroup]_vars

NextTrain ==
    \/ ScaleFeatures
    \/ GroupSplits
    \/ CopyMatrices
    \/ AmplifyColumns
    \/ AddNoise
    \/ FitRanker
    \/ ReportImportance
    \/ EvaluateModelOnTest

SpecTrain == InitTrain /\ [][NextTrain]_vars

-----------------------------------------------------------------------------
(* The normalizer of result-logging events: _process_search_results          *)
(* (properties) and the loop of extract_search_results (legacy).  The hits   *)
(* come newest first.                                                        *)

MaxHits == 2

\* the hits a response may hold: a session id (or none), a 1-based position,
\* a document id, and the result count as the content of the query block
Hits ==
    [session_id : Sessions \cup {NoneVal}, position : 1..2, doc_id : Docs,
     result_count : 1..2]

Responses == SeqsOver(Hits, 0, MaxHits)

\* _validate_document_id: False when the store lacks the id and when the
\* check raises
ValidateDocumentId(doc_id, missing, failing) ==
    doc_id \notin missing /\ doc_id \notin failing

\* whether the normalizer asks the store about an id at all
ValidatesIds(v) == v = "properties"

\* results_lookup after a hit
LookupAfterHit(v, lookup, hit, missing, failing) ==
    IF hit.session_id = NoneVal THEN lookup
    ELSE LET opened == IF hit.session_id \in DOMAIN lookup THEN lookup
                       ELSE Put(lookup, hit.session_id, << >>)
         IN  IF ValidatesIds(v) => ValidateDocumentId(hit.doc_id, missing, failing)
             THEN Put(opened, hit.session_id,
                      Put(opened[hit.session_id], hit.position, hit.doc_id))
             ELSE IF v = "properties" THEN opened ELSE lookup

\* a faulty metadata write: the latest hit of a session wins
MetadataAfterHitLastWins(v, metadata, hit, n) ==
    IF v = "properties" /\ hit.session_id # NoneVal
    THEN Put(metadata, hit.session_id,
             [results_count |-> hit.result_count, search_event |-> n])
    ELSE metadata

\* query_metadata after the n-th hit: filled for a session that has none yet
MetadataAfterHit(v, metadata, hit, n) ==
    IF v = "properties" /\ hit.session_id # NoneVal
          /\ hit.session_id \notin DOMAIN metadata
    THEN Put(metadata, hit.session_id,
             [results_count |-> hit.result_count, search_event |-> n])
    ELSE metadata

InitNorm ==
    /\ mode = "norm"
    /\ variant \in Variants
    /\ response \in Responses
    /\ hit_next = 1
    /\ missing_docs \in SUBSET Docs
    /\ failing_docs \in SUBSET (Docs \ missing_docs)
    /\ validated = {}
    /\ metadata_writes = << >>
    /\ results_lookup = << >>
    /\ query_metadata = << >>
    /\ build_next = 0
    /\ interaction_events = << >>
    /\ interaction_lookup = << >>
    /\ training_examples = << >>
    /\ position = 1
    /\ IdleFeat
    /\ IdleGroup
    /\ IdlePipe
    /\ IdleTrain
    /\ IdleDeploy

\* one round of the loop over the hits
ProcessHit ==
    /\ mode = "norm"
    /\ hit_next <= Len(response)
    /\ LET hit == response[hit_next]
           metadata == MetadataAfterHit(variant, query_metadata, hit, hit_next)
       IN  /\ results_lookup' = LookupAfterHit(variant, results_lookup, hit,
                                               missing_docs, failing_docs)
           /\ validated' =
                 IF /\ ValidatesIds(variant)
                    /\ hit.session_id # NoneVal
                    /\ ValidateDocumentId(hit.doc_id, missing_docs, failing_docs)
                 THEN validated \cup {hit.doc_id}
                 ELSE validated
           /\ query_metadata' = metadata
           /\ metadata_writes' =
                 IF hit.session_id \in DOMAIN metadata
                       /\ (hit.session_id \notin DOMAIN query_metadata
                             \/ metadata[hit.session_id]
                                   # query_metadata[hit.session_id])
                 THEN Put(metadata_writes, hit.session_id,
                          Append(IF hit.session_id \in DOMAIN metadata_writes
                                 THEN metadata_writes[hit.session_id] ELSE << >>,
                                 metadata[hit.session_id]))
                 ELSE metadata_writes
    /\ hit_next' = hit_next + 1
    /\ UNCHANGED <<variant, mode, response, missing_docs, failing_docs,
                   notNormVars>>

NextNorm == ProcessHit

SpecNorm == InitNorm /\ [][NextNorm]_vars

-----------------------------------------------------------------------------
(* Persistence and deployment: the tail of train_model and of run_pipeline   *)
(* after a training that passed, deploy_model, and the smoke test.  A model  *)
(* or a scaler is named by where it came from: "trained" by this run, "old"  *)
(* by an earlier one, "simplified" the stand-in the fallback import fits on  *)
(* random data, "unfitted" the scaler of the constructor.                    *)

Absent == "absent"

ModelFile == "xgboost_ltr_model.json"
ScalerFile == "feature_scaler.pkl"
MetadataFile == "ltr_model_metadata.json"
ImportFile == "home_search_ltr_model.json"
SimplifiedFile == "home_search_ltr_model_simplified.json"
SampleFile == "sample_ltr_features.json"

Files == {ModelFile, ScalerFile, MetadataFile, ImportFile, SimplifiedFile,
          SampleFile}

EmptyDir == [f \in Files |-> Absent]

Write(dir, file, content) == [dir EXCEPT ![file] = content]

\* what an earlier run can have left in models_dir: nothing, the files of a
\* deployment, or those files without the scaler
PriorDirs ==
    LET left == Write(Write(Write(Write(EmptyDir, MetadataFile, "files"),
                                  ModelFile, "old"),
                            ScalerFile, "old"),
                      ImportFile, "old")
    IN  {EmptyDir, left, Write(left, ScalerFile, Absent)}

\* the keys of the metadata file: as _save_model_metadata writes it
\* ("importance") and as _save_model_metadata_and_files writes it ("files")
MetadataKeys(content) ==
    CASE content = "importance" ->
            {"feature_importance", "trained_at", "feature_count", "configuration"}
      [] content = "files" ->
            {"model_id", "type", "feature_count", "created_at", "features"}
      [] OTHER -> {}

DeployEntries(v) ==
    IF v = "properties"
    THEN {"run_pipeline", "train_model", "deploy_model", "train_and_deploy_model"}
    ELSE {"run_pipeline"}

\* The entry points that train are taken up where train_xgboost_model has
\* fit its model: the trainer holds the model and the scaler of this run.
\* deploy_model starts on a new trainer.
InitDeploy ==
    /\ mode = "deploy"
    /\ variant \in Variants
    /\ deploy_entry \in DeployEntries(variant)
    /\ es_model \in {Absent, "old"}
    /\ models_dir \in PriorDirs
    /\ es_before = es_model
    /\ dir_before = models_dir
    /\ self_model = IF deploy_entry = "deploy_model" THEN NoneVal ELSE "trained"
    /\ self_scaler = IF deploy_entry = "deploy_model" THEN "unfitted" ELSE "trained"
    /\ deploy_pc = IF deploy_entry = "deploy_model" THEN "deploy_model"
                   ELSE IF variant = "properties" THEN "metadata" ELSE "clean"
    /\ remote_ops = << >>
    /\ train_returned = "none"
    /\ deploy_returned = "none"
    /\ inference = "none"
    /\ test_returned = "none"
    /\ deploy_result = "running"
    /\ interaction_events = << >>
    /\ interaction_lookup = << >>
    /\ training_examples = << >>
    /\ position = 1
    /\ IdleFeat
    /\ IdleGroup
    /\ IdleBuild
    /\ IdlePipe
    /\ IdleTrain
    /\ IdleNorm

\* _save_model_metadata at the end of _fit_xgboost_model; a failure is
\* printed and the training goes on.  The evaluation that follows passes.
SaveModelMetadata ==
    /\ mode = "deploy"
    /\ deploy_pc = "metadata"
    /\ \E written \in BOOLEAN :
          models_dir' = IF written
                        THEN Write(models_dir, MetadataFile, "importance")
                        ELSE models_dir
    /\ deploy_pc' = IF deploy_entry = "run_pipeline" THEN "clean" ELSE "save"
    /\ UNCHANGED <<variant, mode, deploy_entry, self_model, self_scaler, es_model,
                   es_before, dir_before, remote_ops, train_returned,
                   deploy_returned, inference, test_returned, deploy_result,
                   notDeployVars>>

\* the writes of _save_model_metadata_and_files (properties) and of the end
\* of deploy_model_to_elasticsearch (legacy), in order
SaveSteps(v) ==
    IF v = "properties" THEN <<MetadataFile, ModelFile, ScalerFile>>
    ELSE <<ModelFile, ScalerFile>>

\* where the writes can raise: nowhere, or at one of the files
SaveFailures(v) == {"none"} \cup {SaveSteps(v)[i] : i \in DOMAIN SaveSteps(v)}

SavedContent(file, m, sc) ==
    CASE file = MetadataFile -> "files"
      [] file = ModelFile -> m
      [] OTHER -> sc

\* the directory after the writes that precede the failing one
RECURSIVE SavedFiles(_, _, _, _, _)
SavedFiles(dir, todo, m, sc, fail_at) ==
    IF todo = << >> \/ Head(todo) = fail_at THEN dir
    ELSE SavedFiles(Write(dir, Head(todo), SavedContent(Head(todo), m, sc)),
                    Tail(todo), m, sc, fail_at)

\* _save_model_metadata_and_files at the end of train_model, whose handler
\* turns an exception into False, and the command's test of the result
SaveTrainedModel ==
    /\ mode = "deploy"
    /\ deploy_pc = "save"
    /\ \E fail_at \in SaveFailures(variant) :
          /\ models_dir' = SavedFiles(models_dir, SaveSteps(variant), self_model,
                                      self_scaler, fail_at)
          /\ train_returned' = IF fail_at = "none" THEN "success" ELSE "failure"
          /\ IF fail_at # "none"
             THEN deploy_pc' = "done" /\ deploy_result' = "failure"
             ELSE IF deploy_entry = "train_model"
             THEN deploy_pc' = "done" /\ deploy_result' = "success"
             ELSE deploy_pc' = "deploy_model" /\ UNCHANGED deploy_result
    /\ UNCHANGED <<variant, mode, deploy_entry, self_model, self_scaler, es_model,
                   es_before, dir_before, remote_ops, deploy_returned, inference,
                   test_returned, notDeployVars>>

\* a faulty deploy_model that goes on to the deployment whatever the check of
\* the model file says
AfterModelFileCheckDeploys(exists) == "clean"

\* deploy_model after os.path.exists(model_path)
AfterModelFileCheck(exists) == IF exists THEN "load" ELSE "done"

\* deploy_model up to the deployment: the connection, the model file, the
\* loads of the model and of the scaler.  A load that raises ends it.
DeployModel ==
    /\ mode = "deploy"
    /\ deploy_pc = "deploy_model"
    /\ \E connected \in BOOLEAN, model_loads \in BOOLEAN, scaler_loads \in BOOLEAN :
          LET next == IF connected
                      THEN AfterModelFileCheck(models_dir[ModelFile] # Absent)
                      ELSE "done"
              has_scaler == models_dir[ScalerFile] # Absent
          IN  IF next = "load"
              THEN IF ~model_loads
                   THEN /\ deploy_pc' = "done"
                        /\ deploy_result' = "failure"
                        /\ UNCHANGED <<self_model, self_scaler>>
                   ELSE /\ self_model' = models_dir[ModelFile]
                        /\ IF has_scaler /\ ~scaler_loads
                           THEN /\ deploy_pc' = "done"
                                /\ deploy_result' = "failure"
                                /\ UNCHANGED self_scaler
                           ELSE /\ self_scaler' = IF has_scaler
                                                  THEN models_dir[ScalerFile]
                                                  ELSE self_scaler
                                /\ deploy_pc' = "clean"
                                /\ UNCHANGED deploy_result
              ELSE /\ deploy_pc' = next
                   /\ deploy_result' = IF next = "done" THEN "failure"
                                       ELSE deploy_result
                   /\ UNCHANGED <<self_model, self_scaler>>
    /\ UNCHANGED <<variant, mode, deploy_entry, es_model, models_dir, es_before,
                   dir_before, remote_ops, train_returned, deploy_returned,
                   inference, test_returned, notDeployVars>>

\* the search engine after delete_trained_model
EsAfterDelete(es) == Absent

\* _clean_existing_model (properties) and the first block of
\* deploy_model_to_elasticsearch (legacy): a model found is stopped and
\* deleted; an exception of any of the calls is swallowed.
CleanExistingModel ==
    /\ mode = "deploy"
    /\ deploy_pc = "clean"
    /\ es_before' = es_model
    /\ dir_before' = models_dir
    /\ \E found \in BOOLEAN, stopped \in BOOLEAN, deleted \in BOOLEAN :
          IF found /\ es_model # Absent
          THEN /\ es_model' = IF deleted THEN EsAfterDelete(es_model) ELSE es_model
               /\ remote_ops' = remote_ops
                                \o (IF stopped THEN <<"stop">> ELSE << >>)
                                \o (IF deleted THEN <<"delete">> ELSE << >>)
          ELSE UNCHANGED <<es_model, remote_ops>>
    /\ deploy_pc' = "import"
    /\ UNCHANGED <<variant, mode, deploy_entry, self_model, self_scaler,
                   models_dir, train_returned, deploy_returned, inference,
                   test_returned, deploy_result, notDeployVars>>

\* how _import_model_to_elasticsearch (properties) and the import and start
\* of deploy_model_to_elasticsearch (legacy) can go
ImportOutcomes(v, m) ==
    IF v = "legacy" THEN {"imported", "failed", "start_failed"}
    ELSE IF m = NoneVal THEN {"mkdir_failed", "save_failed"}
    ELSE {"mkdir_failed", "save_failed", "scaler_failed", "imported", "failed",
          "fallback_imported", "fallback_unsaved"}

\* the model the import puts into the search engine, None for none
ImportedModel(m, outcome) ==
    CASE outcome \in {"imported", "start_failed"} -> m
      [] outcome \in {"fallback_imported", "fallback_unsaved"} -> "simplified"
      [] OTHER -> NoneVal

\* the files _import_model_to_elasticsearch writes before and after the import
ImportedFiles(v, dir, m, sc, outcome) ==
    IF v = "legacy" \/ outcome \in {"mkdir_failed", "save_failed"} THEN dir
    ELSE IF outcome = "scaler_failed" THEN Write(dir, ImportFile, m)
    ELSE LET saved == Write(Write(dir, ImportFile, m), ScalerFile, sc)
         IN  IF outcome = "fallback_imported"
             THEN Write(saved, SimplifiedFile, "simplified")
             ELSE saved

\* what the import returns to deploy_model_to_elasticsearch
ImportReturns(outcome) == outcome \in {"imported", "fallback_imported"}

\* the import, and on its failure the end of deploy_model_to_elasticsearch
\* and of the entry point
ImportModelToElasticsearch ==
    /\ mode = "deploy"
    /\ deploy_pc = "import"
    /\ \E outcome \in ImportOutcomes(variant, self_model) :
          LET put == ImportedModel(self_model, outcome)
          IN  /\ es_model' = IF put = NoneVal THEN es_model ELSE put
              /\ remote_ops' = IF put = NoneVal THEN remote_ops
                               ELSE Append(remote_ops, "import")
              /\ models_dir' = ImportedFiles(variant, models_dir, self_model,
                                             self_scaler, outcome)
              /\ IF ImportReturns(outcome)
                 THEN /\ deploy_pc' = "save_deployed"
                      /\ UNCHANGED <<deploy_returned, deploy_result>>
                 ELSE /\ deploy_pc' = "done"
                      /\ deploy_returned' = "failure"
                      /\ deploy_result' = "failure"
    /\ UNCHANGED <<variant, mode, deploy_entry, self_model, self_scaler,
                   es_before, dir_before, train_returned, inference,
                   test_returned, notDeployVars>>

\* the local save that ends deploy_model_to_elasticsearch, whose handler
\* turns an exception into False, and the caller's test of the result
SaveDeployedModel ==
    /\ mode = "deploy"
    /\ deploy_pc = "save_deployed"
    /\ \E fail_at \in SaveFailures(variant) :
          /\ models_dir' = SavedFiles(models_dir, SaveSteps(variant), self_model,
                                      self_scaler, fail_at)
          /\ deploy_returned' = IF fail_at = "none" THEN "success" ELSE "failure"
          /\ IF fail_at # "none"
             THEN deploy_pc' = "done" /\ deploy_result' = "failure"
             ELSE IF deploy_entry = "run_pipeline"
             THEN deploy_pc' = "test" /\ UNCHANGED deploy_result
             ELSE deploy_pc' = "done" /\ deploy_result' = "success"
    /\ UNCHANGED <<variant, mode, deploy_entry, self_model, self_scaler, es_model,
                   es_before, dir_before, remote_ops, train_returned, inference,
                   test_returned, notDeployVars>>

\* a faulty smoke test that passes whatever the inference call does
InferenceReturnsAlways(v, outcome) == "success"

\* what test_native_ltr returns for the outcome of its calls: the properties
\* trainer returns False when _verify_model_exists does, and True from both
\* branches of _test_model_inference; the legacy trainer returns False on an
\* exception of the inference call
InferenceReturns(v, outcome) ==
    IF v = "properties"
    THEN IF outcome = "not_found" THEN "failure" ELSE "success"
    ELSE IF outcome = "ok" THEN "success" ELSE "failure"

\* how the calls of the smoke test can go: get_trained_models can raise or
\* find nothing (properties), the inference call can raise
InferenceOutcomes(v, es) ==
    IF es = Absent
    THEN IF v = "properties" THEN {"not_found"} ELSE {"failed"}
    ELSE IF v = "properties" THEN {"not_found", "ok", "failed"}
    ELSE {"ok", "failed"}

\* test_native_ltr and the end of run_pipeline.  The properties trainer saves
\* the sample features after the inference call; a failure to is printed.
TestNativeLtrOnModel ==
    /\ mode = "deploy"
    /\ deploy_pc = "test"
    /\ \E outcome \in InferenceOutcomes(variant, es_model), saved \in BOOLEAN :
          /\ inference' = outcome
          /\ test_returned' = InferenceReturns(variant, outcome)
          /\ models_dir' = IF variant = "properties" /\ outcome # "not_found" /\ saved
                           THEN Write(models_dir, SampleFile, "sample")
                           ELSE models_dir
    /\ deploy_result' = test_returned'
    /\ deploy_pc' = "done"
    /\ UNCHANGED <<variant, mode, deploy_entry, self_model, self_scaler, es_model,
                   es_before, dir_before, remote_ops, train_returned,
                   deploy_returned, notDeployVars>>

NextDeploy ==
    \/ SaveModelMetadata
    \/ SaveTrainedModel
    \/ DeployModel
    \/ CleanExistingModel
    \/ ImportModelToElasticsearch
    \/ SaveDeployedModel
    \/ TestNativeLtrOnModel

SpecDeploy == InitDeploy /\ [][NextDeploy]_vars

-----------------------------------------------------------------------------
(* Properties of the labeler *)

Examples == {training_examples[n] : n \in DOMAIN training_examples}

\* the lookup records the labeler reads for an example
RecordsOf(ex) ==
    LET key == ex.session_id \o "_" \o ex.doc_id
    IN  IF key \in DOMAIN interaction_lookup
        THEN {interaction_lookup[key][n] : n \in DOMAIN interaction_lookup[key]}
        ELSE {}

\* the interaction class of an example: 3 conversational, 2 click-like and not
\* conversational, 1 view-only, 0 no interaction
ClassRank(ex) ==
    IF \E r \in RecordsOf(ex) : r.conversational THEN 3
    ELSE IF \E r \in RecordsOf(ex) : IsClickInteraction(variant, r) THEN 2
    ELSE IF RecordsOf(ex) # {} THEN 1
    ELSE 0

\* the raw interaction events that name an example's session and document
EventsFor(ex) ==
    {n \in DOMAIN interaction_events :
        /\ interaction_events[n].session_id = ex.session_id
        /\ interaction_events[n].document_id = ex.doc_id}

\* the grades the no-interaction prior may give at a position
TierGrades(pos) ==
    IF pos = 1 THEN {2, 3, 4}
    ELSE IF pos <= 3 THEN {1, 2, 3}
    ELSE {0, 1, 2}

InteractionFeatureNames ==
    {"click_count", "view_count", "interaction_rate",
     "conversational_detection", "user_engagement_score"}

\* C4 (as the code has it): every example the builder emits carries an integer
\* grade in 0..7; a grade above 5 occurs only in the properties trainer, for an
\* item with a click-like interaction at a position of 4 or more; the legacy
\* trainer stays within 0..4.
C4_GradeRange ==
    \A ex \in Examples :
        /\ ex.relevance \in 0..7
        /\ ex.relevance > 5 =>
              /\ variant = "properties"
              /\ ex.position >= 4
              /\ ClassRank(ex) = 2
        /\ variant = "legacy" => ex.relevance \in 0..4

\* C4, case reached: a click-like item at a low rank is emitted with grade 7
C4_Witness ==
    \E ex \in Examples :
        /\ ClassRank(ex) = 2
        /\ ex.position >= 7
        /\ ex.relevance = 7

\* C4 as stated: every example the builder emits carries an integer grade in
\* 0..5, for every interaction class and every position 1..10.
C4_GradeWithinFive == \A ex \in Examples : ex.relevance \in 0..5

\* C5: at a fixed position the labeler is monotone in the interaction class:
\* grade(conversational) >= grade(click-like) >= grade(view-only) >= 0, and no
\* grade of the interaction-present branch is below the view-only grade 2.
C5_Monotone ==
    /\ \A e1, e2 \in Examples :
          (/\ ClassRank(e2) >= 1
           /\ ClassRank(e1) >= ClassRank(e2)
           /\ e1.position = e2.position) => e1.relevance >= e2.relevance
    /\ \A ex \in Examples :
          ClassRank(ex) >= 1 => ex.relevance >= 2 /\ ex.relevance >= 0
    /\ \A ex \in Examples : ClassRank(ex) = 1 => ex.relevance = 2

\* C5, case reached: a conversational item and a click-like item labelled at the
\* same position, the conversational one graded strictly higher
C5_Witness ==
    \E e1, e2 \in Examples :
        /\ ClassRank(e1) = 3
        /\ ClassRank(e2) = 2
        /\ e1.position = e2.position
        /\ e1.relevance > e2.relevance

\* C6: from raw events on, an item with a conversational interaction is graded
\* strictly above an item at the same position in another session whose only
\* interactions are views.
C6_ConversationalAboveView ==
    \A e1, e2 \in Examples :
        (/\ e1.session_id # e2.session_id
         /\ e1.position = e2.position
         /\ \E n \in EventsFor(e1) : interaction_events[n].conversational_detection
         /\ EventsFor(e2) # {}
         /\ \A n \in EventsFor(e2) :
               /\ interaction_events[n].type = "view"
               /\ ~interaction_events[n].conversational_detection)
        => e1.relevance > e2.relevance

\* C10: an item with no interaction event for its exact (session, document)
\* pair is graded from its rank tier's prior set, and its interaction-derived
\* features stay at zero.
C10_NoInteractionPrior ==
    \A ex \in Examples :
        EventsFor(ex) = {} =>
            /\ ex.relevance \in TierGrades(ex.position)
            /\ \A k \in InteractionFeatureNames : ex.features[k] = 0

\* C10, case reached: an item without events of its own is labelled while the
\* same session has an event on another document and another session has an
\* event on the same document
C10_Witness ==
    \E ex \in Examples :
        /\ EventsFor(ex) = {}
        /\ \E n \in DOMAIN interaction_events :
              /\ interaction_events[n].session_id = ex.session_id
              /\ interaction_events[n].document_id \notin {ex.doc_id, NoneVal}
        /\ \E n \in DOMAIN interaction_events :
              /\ interaction_events[n].session_id \notin {ex.session_id, NoneVal}
              /\ interaction_events[n].document_id = ex.doc_id
        /\ ex.relevance \in TierGrades(ex.position)

\* C11: an item whose interaction records hold neither a click-like nor a
\* conversational one is graded the view-only constant 2, the grade such an
\* item gets at each of the positions 1..10: no position boost.
C11_ViewOnlyConstant ==
    \A ex \in Examples :
        ClassRank(ex) = 1 =>
            \A pos \in Positions :
                /\ InteractionGrade(variant, pos, FALSE, FALSE) = 2
                /\ ex.relevance = InteractionGrade(variant, pos, FALSE, FALSE)

\* C11, case reached: a view-only item at the last position, where the boost
\* of the other classes is largest, is graded 2
C11_Witness ==
    \E ex \in Examples :
        /\ ClassRank(ex) = 1
        /\ ex.position = MaxPosition
        /\ ex.relevance = 2

-----------------------------------------------------------------------------
(* Properties of the feature extractor *)

\* C8: once base features, enrichment and labeler updates have run, the key
\* set of the example's feature mapping is the canonical feature-name list: no
\* name missing, no extra key, failed enrichment included.
C8_CanonicalKeys ==
    feat_pc \in {"labelled", "prepared"} =>
        DOMAIN features = FeatureNames(variant)

\* C9: enrich_with_property_data returns, whichever sub-derivations fail, a
\* mapping whose key set is that of get_default_property_features.
C9_DefaultKeySet ==
    feat_pc = "enrich_returned" =>
        DOMAIN enrich_result = DOMAIN GetDefaultPropertyFeatures(variant)

-----------------------------------------------------------------------------
(* Properties of the grouping *)

\* the rows of a matrix that its k-th group covers
GroupRange(m, k) ==
    LET start == SumSeq(SubSeq(m.groups, 1, k - 1))
    IN  (start + 1)..(start + m.groups[k])

\* group sizes, rows and labels agree in number, and each group is the one
\* contiguous range of all the rows of one qid
WellGrouped(m) ==
    /\ SumSeq(m.groups) = Len(m.X)
    /\ Len(m.X) = Len(m.y)
    /\ \A k \in DOMAIN m.groups :
          \E q \in Qids :
              \A i \in DOMAIN m.X :
                  (training_examples[m.X[i]].qid = q) <=> (i \in GroupRange(m, k))

\* C3: every grouped matrix handed to the ranking model, train and test alike,
\* has sum(group_sizes) = rows = labels, and the rows of a qid fill one
\* contiguous range of that qid's group size, whatever the order of the input.
C3_GroupedMatrices ==
    group_pc = "grouped" => WellGrouped(train_data) /\ WellGrouped(test_data)

-----------------------------------------------------------------------------
(* Properties of the training-set builder *)

\* the metadata entries of a session, by their index
EntriesOf(session_id) ==
    {n \in DOMAIN query_metadata : query_metadata[n].session_id = session_id}

\* the positions of a session the builder owes an example: the session has
\* metadata with a result count above 0 and a resolved result lookup, the
\* position is within [1, min(10, result_count)] and maps to an id that the
\* document store resolves
OwedPositions(session_id) ==
    IF EntriesOf(session_id) = {} \/ session_id \notin DOMAIN results_lookup
    THEN {}
    ELSE LET first == CHOOSE n \in EntriesOf(session_id) :
                          \A m \in EntriesOf(session_id) : n <= m
             results_count == query_metadata[first].results_count
         IN  {pos \in Positions :
                 /\ pos <= results_count
                 /\ pos \in DOMAIN results_lookup[session_id]
                 /\ results_lookup[session_id][pos] \notin missing_docs}

ExamplesAt(session_id, pos) ==
    {n \in DOMAIN training_examples :
        /\ training_examples[n].session_id = session_id
        /\ training_examples[n].position = pos}

\* C7: when the builder has visited every session, it has emitted exactly one
\* example for each owed position of each session and none for any other
\* position; a session without resolved result lookup has none.
C7_OnePerResolvablePosition ==
    build_next > Len(query_metadata) =>
        \A session_id \in BuildSessions, pos \in 1..(MaxPosition + 1) :
            Cardinality(ExamplesAt(session_id, pos)) =
                (IF pos \in OwedPositions(session_id) THEN 1 ELSE 0)

-----------------------------------------------------------------------------
(* Properties of the entry points *)

ExtractionCalls ==
    {"extract_search_events", "extract_search_results",
     "extract_interaction_events", "prepare_training_features",
     "train_xgboost_model", "fit"}

Called(name) == \E i \in 1..Len(calls) : calls[i] = name

Before(first, second) ==
    \A j \in 1..Len(calls) :
        calls[j] = second => \E i \in 1..(j - 1) : calls[i] = first

NothingExtracted == \A i \in 1..Len(calls) : calls[i] \notin ExtractionCalls

HaltedAtGate ==
    /\ NothingExtracted
    /\ Called("has_enough_interactions") => pc = "done" /\ result = "failure"
    /\ pc = "done" => result = "failure"

\* C1: a run whose count of qualifying interaction events fails, or is below
\* the minimum in force (100 in run_pipeline, the default of min_interactions
\* in train_model), ends in failure at the gate: nothing is extracted,
\* prepared or fitted.
C1_GateHaltsBelowMinimum ==
    (store.count_fails
       \/ store.count < (IF entry = "run_pipeline" THEN 100 ELSE min_interactions))
    => HaltedAtGate

\* a count of 99 met the gate of train_model or of run_pipeline and the run
\* stopped there without extracting
C1_Witness ==
    /\ store.count = 99
    /\ ~store.count_fails
    /\ Called("has_enough_interactions")
    /\ pc = "done"
    /\ result = "failure"
    /\ NothingExtracted

\* C1 as stated: a run whose count fails or is below 100 ends in failure at
\* the gate, in run_pipeline and in train_model alike.
C1_GateHaltsBelowHundred ==
    (store.count_fails \/ store.count < 100) => HaltedAtGate

\* C2: deploy_model_to_elasticsearch is called only after train_xgboost_model
\* returned True on a score above 0.6, never after it reported failure or
\* raised.
C2_DeployOnlyAfterPass ==
    Called("deploy_model_to_elasticsearch") =>
        /\ train_result = "passed"
        /\ avg_ndcg > 60
        /\ Before("train_xgboost_model", "deploy_model_to_elasticsearch")
        /\ Before("evaluate", "deploy_model_to_elasticsearch")

\* a run deployed after an evaluation that scored just above the threshold
C2_Witness ==
    /\ Called("deploy_model_to_elasticsearch")
    /\ train_result = "passed"
    /\ avg_ndcg = 61


\* the calls of a complete run_pipeline, in order
StageOrder(v) ==
    <<"has_enough_interactions", "check_connection">>
    \o (IF v = "legacy" THEN <<"extract_search_events">> ELSE << >>)
    \o <<"extract_search_results", "extract_interaction_events",
         "prepare_training_features", "train_xgboost_model", "fit", "evaluate",
         "deploy_model_to_elasticsearch", "test_native_ltr">>

\* the extraction of the properties run_pipeline printed a failure: no
\* search results, or no interaction events
ExtractionReportedFailure ==
    /\ variant = "properties"
    /\ Called("extract_search_results")
    /\ extracted.results = "empty" \/ extracted.interactions = "None"

\* C24: run_pipeline makes its calls in the order gate, extraction, feature
\* extraction, training with evaluation, deployment, smoke test; after a
\* stage that reported failure no later stage is called; and it returns
\* success only after every stage was called and training passed.
C24_StagesInOrder ==
    entry = "run_pipeline" =>
        /\ Len(calls) <= Len(StageOrder(variant))
        /\ calls = SubSeq(StageOrder(variant), 1, Len(calls))
        /\ ExtractionReportedFailure => ~Called("prepare_training_features")
        /\ train_result \in {"failed", "raised"} =>
              ~Called("deploy_model_to_elasticsearch")
        /\ result # "running" => pc = "done"
        /\ result = "success" =>
              calls = StageOrder(variant) /\ train_result = "passed"

\* C19: run_pipeline never ends in an exception for want of data: whatever
\* the extraction calls return, an exception leaves it only out of a training
\* on at least 50 examples, and every other end is a returned result.
C19_InsufficientDataNoCrash ==
    (entry = "run_pipeline" /\ result = "raised") =>
        /\ calls[Len(calls)] \in {"train_xgboost_model", "fit", "evaluate"}
        /\ n_examples >= 50
        /\ extracted.results = "some"
        /\ extracted.interactions \in {"some", "empty"}

\* C20: the scaler fit and the model fit are reached only with a training set
\* of at least 50 examples, in run_pipeline and in train_model.
C20_NoFitBelowMinimum ==
    (pc = "fit" \/ Called("fit")) => n_examples >= 50

\* the interaction events of a session about a document
OwnEvents(s, d) ==
    {i \in DOMAIN interaction_events :
        /\ interaction_events[i].session_id = s
        /\ interaction_events[i].document_id = d}

\* C25: the lookup files under the key of a (session, item) pair the
\* interactions of that pair only, and a labelled item's click count is the
\* number of its own clicks.
C25_OwnInteractionsOnly ==
    /\ \A s \in KeySessions, d \in KeyDocs :
          LET key == LookupKey(s, d)
          IN  key \in DOMAIN interaction_lookup =>
                 Len(interaction_lookup[key]) = Cardinality(OwnEvents(s, d))
    /\ \A n \in DOMAIN training_examples :
          LET e == training_examples[n]
          IN  e.features["click_count"] =
                 Cardinality({i \in OwnEvents(e.session_id, e.doc_id) :
                                 interaction_events[i].type = "click"})

-----------------------------------------------------------------------------
(* Properties of the scaler, the fit and the evaluator *)

\* the rows of the test split that carry a qid
TestRowsOf(qid) ==
    {i \in DOMAIN split_test : training_examples[split_test[i]].qid = qid}

\* the qids whose group of the test split has at least two rows
ScorableQids == {q \in Qids : Cardinality(TestRowsOf(q)) >= 2}

C13_EvaluationIdempotent ==
    /\ [](\A i, j \in DOMAIN eval_returns : eval_returns[i] = eval_returns[j])
    /\ [][eval_returns' # eval_returns =>
             /\ model' = model
             /\ scaler' = scaler
             /\ X_scaled' = X_scaled
             /\ test_data' = test_data
             /\ train_data' = train_data]_vars

\* C13, case reached: the evaluator was called twice on a matrix with a group
\* it scores, ran its score-distribution check, and returned the same score
C13_Witness ==
    /\ variant = "properties"
    /\ Len(eval_returns) = 2
    /\ ndcg_scores # << >>
    /\ eval_returns[1] = eval_returns[2]
    /\ scaler.n_fits = 1


Stepped(name) == \E i \in DOMAIN steps : steps[i] = name

\* the factor a column of the copies is to carry: those of the allow-list,
\* 1 for every other column
AllowedFactor(k) ==
    CASE k = "position" -> 20
      [] k = "position_engagement_signal" -> 15
      [] k \in {"user_engagement_score", "interaction_rate", "click_count",
                "conversational_detection"} -> 10
      [] k \in {"price_value_competitiveness", "absolute_price_tier"} -> 100
      [] OTHER -> 1

\* an array holds the rows of a matrix, each column times its factor, plus
\* one noise draw
AmplifiedOnce(array, m, noises) ==
    \E noise \in noises :
        \A i \in DOMAIN m.X : \A k \in FeatureNames(variant) :
            array.data[i][k] = X_scaled[m.X[i]][k] * AllowedFactor(k) + noise

\* C16: from the standardization on, through the fit and after its return,
\* successful or not, the matrices handed to _fit_xgboost_model hold the
\* standardized rows, labels and group sizes they were built with; the
\* amplified arrays are these rows with each allow-listed column multiplied
\* once by its factor and no other column multiplied.
C16_FitLeavesMatrices ==
    /\ Stepped("transform") =>
          X_scaled = [i \in DOMAIN training_examples |->
                         Transform(scaler, training_examples[i].features)]
    /\ Stepped("group") =>
          /\ train_data = GroupedData(variant, training_examples, split_train)
          /\ test_data = GroupedData(variant, training_examples, split_test)
    /\ Stepped("amplify") =>
          LET noises == IF Stepped("noise") THEN FitNoises ELSE {0}
          IN  /\ AmplifiedOnce(X_train_modified, train_data, noises)
              /\ AmplifiedOnce(X_test_modified, test_data, noises)

\* C16, case reached: _fit_xgboost_model returned False after amplifying a
\* position column that is not zero, and the matrix still holds the
\* standardized value
C16_Witness ==
    /\ train_pc = "failed"
    /\ Stepped("fit")
    /\ \E i \in DOMAIN train_data.X :
          /\ X_scaled[train_data.X[i]]["position"] # 0
          /\ X_train_modified.data[i]["position"]
                \in {20 * X_scaled[train_data.X[i]]["position"] + noise :
                        noise \in FitNoises}
          /\ X_scaled[train_data.X[i]] =
                Transform(scaler, training_examples[train_data.X[i]].features)


\* the places of a step in the run
StepsAt(name) == {i \in DOMAIN steps : steps[i] = name}

\* what there is of two steps happened once each and in this order
Ordered(first, second) ==
    /\ Cardinality(StepsAt(first)) <= 1
    /\ Cardinality(StepsAt(second)) <= 1
    /\ \A i \in StepsAt(first), j \in StepsAt(second) : i < j
    /\ (variant = "properties" /\ StepsAt(second) # {}) => StepsAt(first) # {}

\* C17: the steps of a training run come in the order standardize, amplify,
\* add noise, fit, report importance; the scaler is fit once, on the rows of
\* the train split, and whatever uses it afterwards (the test split, the
\* probe of the score-distribution check) transforms with the parameters of
\* that fit.
C17_StepOrderAndSingleFit ==
    /\ Ordered("fit_transform", "amplify")
    /\ Ordered("amplify", "noise")
    /\ Ordered("noise", "fit")
    /\ Ordered("fit", "importance")
    /\ \A i \in StepsAt("transform") : \E j \in StepsAt("fit_transform") : j < i
    /\ Stepped("fit_transform") =>
          /\ scaler.n_fits = 1
          /\ scaler.fit_on = split_train
          /\ scaler.mean =
                [k \in FeatureNames(variant) |->
                    SumSeq([i \in DOMAIN split_train |->
                               100 * training_examples[split_train[i]].features[k]])
                       \div Len(split_train)]
    /\ ~Stepped("fit_transform") => scaler.n_fits = 0

\* C17, case reached: a run of the properties trainer went through every
\* step and its evaluation transformed the probe with the scaler
C17_Witness ==
    /\ steps = <<"fit_transform", "transform", "group", "copy", "amplify",
                 "noise", "fit", "importance", "evaluate", "transform">>
    /\ scaler.n_fits = 1
    /\ Len(split_train) = 2
    /\ training_examples[split_train[1]].features["position"]
          # training_examples[split_test[1]].features["position"]


\* C18: when the grouping of the train split or of the test split has no
\* group to give, train_xgboost_model returns failure there and
\* _fit_xgboost_model is not entered; the matrices that do reach the fit
\* hold every row of their split, and their group sizes add up to it.
C18_GroupingFailureAborts ==
    Stepped("group") =>
        /\ (split_train = << >> \/ split_test = << >>) =>
              /\ train_pc = "failed"
              /\ ~Stepped("copy")
              /\ X_train_modified = << >>
        /\ train_pc # "failed" =>
              /\ Len(train_data.X) = Len(split_train)
              /\ Len(test_data.X) = Len(split_test)
              /\ SumSeq(train_data.groups) = Len(split_train)
              /\ SumSeq(test_data.groups) = Len(split_test)

\* C18, case reached: the train split grouped well, the test split had no
\* row, and the run stopped before the fit
C18_Witness ==
    /\ Stepped("group")
    /\ Len(split_train) = 2
    /\ split_test = << >>
    /\ ~train_data.is_none
    /\ test_data.is_none
    /\ train_pc = "failed"


\* the transformation of the rows handed to the fit, the noise apart
FitTransformation(v, rows) ==
    IF v = "properties" THEN Amplified(rows, AmplifySteps) ELSE rows

\* the standardized rows of the test matrix
StandardizedTestRows ==
    [i \in DOMAIN test_data.X |->
        Transform(scaler, training_examples[test_data.X[i]].features)]

\* C26: the rows the evaluator predicts on carry the standardization and the
\* column amplification of the rows the model was fit on.
C26_PredictOnFitTransformation ==
    (eval_returns # << >> /\ model.fitted) =>
        MatrixRows(X_scaled, test_data) =
            FitTransformation(variant, StandardizedTestRows)

\* C27 as amended: without a scored group the properties evaluator returns
\* the default 0.7, which passes the 0.6 threshold, so train_xgboost_model
\* reports success; the legacy evaluation returns 0, which fails it.
C27_FallbackPassesGate ==
    (eval_returns # << >> /\ ndcg_scores = << >>) =>
        LET returned == eval_returns[Len(eval_returns)]
        IN  IF variant = "properties"
            THEN returned = DefaultNdcg /\ TrainPassed(returned)
            ELSE returned = 0 /\ ~TrainPassed(returned)

\* an evaluation of the properties trainer that scored no group
C27_Witness ==
    /\ variant = "properties"
    /\ Stepped("fit")
    /\ ndcg_scores = << >>
    /\ eval_returns = <<DefaultNdcg>>
    /\ Len(split_test) >= 2

\* C27 as stated: without a scored group the returned score does not exceed
\* the threshold and train_xgboost_model does not report success.
C27_FallbackConservative ==
    (eval_returns # << >> /\ ndcg_scores = << >>) =>
        /\ eval_returns[Len(eval_returns)] <= NdcgThreshold
        /\ ~TrainPassed(eval_returns[Len(eval_returns)])

-----------------------------------------------------------------------------
(* Properties of the normalizer *)

\* the hits of a session the loop has been through, by their index
HitsOf(session_id) ==
    {n \in 1..(hit_next - 1) : response[n].session_id = session_id}

\* C14: at every point of the batch the metadata of a session is the one of
\* the first hit that carried the session, it was written once, and (in the
\* properties trainer, which keeps metadata) every session the loop has met
\* has its metadata.
C14_MetadataFirstWins ==
    /\ \A s \in DOMAIN query_metadata :
          /\ HitsOf(s) # {}
          /\ LET first == CHOOSE n \in HitsOf(s) : \A m \in HitsOf(s) : n <= m
             IN  query_metadata[s] =
                    [results_count |-> response[first].result_count,
                     search_event |-> first]
          /\ s \in DOMAIN metadata_writes
          /\ Len(metadata_writes[s]) = 1
    /\ variant = "properties" =>
          \A s \in Sessions : HitsOf(s) # {} => s \in DOMAIN query_metadata

\* C14, case reached: two hits of one session with different query blocks
\* were processed and the metadata is that of the first
C14_Witness ==
    /\ hit_next = 3
    /\ response[1].session_id = "A"
    /\ response[2].session_id = "A"
    /\ response[1].result_count # response[2].result_count
    /\ query_metadata["A"].results_count = response[1].result_count

\* C15: every id in results_lookup was asked of the document store and
\* found there; an id the store lacks, or whose check raises, is not in the
\* lookup, and the loop goes on to the hits that follow.
C15_LookupIdsValidated ==
    \A s \in DOMAIN results_lookup : \A p \in DOMAIN results_lookup[s] :
        /\ results_lookup[s][p] \in validated
        /\ results_lookup[s][p] \notin missing_docs \cup failing_docs


-----------------------------------------------------------------------------
(* Properties of persistence and deployment *)

\* C21: when deploy_model_to_elasticsearch reports success, the search
\* engine holds the model the trainer holds, which in deploy_model is the
\* model of the persisted model file.
C21_DeployedModelIsTrained ==
    deploy_returned = "success" =>
        /\ es_model = self_model
        /\ deploy_entry = "deploy_model" => self_model = dir_before[ModelFile]

\* C22: when deploy_model_to_elasticsearch reports failure, the model file
\* and the scaler file that were there when it began are as they were.
C22_FailureKeepsArtifacts ==
    deploy_returned = "failure" =>
        \A f \in {ModelFile, ScalerFile} :
            dir_before[f] # Absent => models_dir[f] = dir_before[f]

\* what the metadata file records
RecordsAll(keys) ==
    /\ "features" \in keys \/ "configuration" \in keys
    /\ "feature_importance" \in keys
    /\ "trained_at" \in keys \/ "created_at" \in keys
    /\ "configuration" \in keys

\* C23: after train_model returned success, and after a deployment that
\* reported success, the metadata file records the feature names, the
\* feature importances, a timestamp and the configuration.
C23_MetadataComplete ==
    (train_returned = "success" \/ deploy_returned = "success") =>
        RecordsAll(MetadataKeys(models_dir[MetadataFile]))

\* C28: a deployment that reports failure leaves a model under the model id
\* when there was one before it.
C28_FailedDeployKeepsModel ==
    (deploy_returned = "failure" /\ es_before # Absent) => es_model # Absent

\* C29 as amended: the smoke test fails run_pipeline when the model cannot
\* be found; a failing inference call fails it in the legacy trainer only,
\* the properties trainer reports success and run_pipeline returns success.
C29_SmokeTestGatesOnLookup ==
    /\ inference = "not_found" =>
          test_returned = "failure" /\ deploy_result = "failure"
    /\ inference = "failed" =>
          IF variant = "legacy"
          THEN test_returned = "failure" /\ deploy_result = "failure"
          ELSE test_returned = "success" /\ deploy_result = "success"
    /\ inference = "ok" =>
          test_returned = "success" /\ deploy_result = "success"

\* a properties run whose inference call failed
C29_Witness ==
    /\ variant = "properties"
    /\ deploy_entry = "run_pipeline"
    /\ deploy_returned = "success"
    /\ inference = "failed"
    /\ deploy_result = "success"

\* C29 as stated: a failing inference call, and a model that cannot be
\* found, make test_native_ltr and run_pipeline return failure.
C29_SmokeTestGates ==
    inference \in {"failed", "not_found"} =>
        test_returned = "failure" /\ deploy_result = "failure"

\* C30: deploy_model without a model file returns failure and has changed
\* nothing in the search engine and no local file.
C30_NothingToDeployChangesNothing ==
    (deploy_entry = "deploy_model" /\ models_dir[ModelFile] = Absent) =>
        /\ remote_ops = << >>
        /\ es_model = es_before
        /\ models_dir = dir_before
        /\ deploy_pc \in {"deploy_model", "done"}
        /\ deploy_pc = "done" => deploy_result = "failure"

\* deploy_model has returned for want of a model file, the search engine
\* holding a model
C30_Witness ==
    /\ deploy_entry = "deploy_model"
    /\ models_dir[ModelFile] = Absent
    /\ deploy_pc = "done"
    /\ deploy_result = "failure"
    /\ es_model = "old"

=============================================================================
